---------------------------- MODULE Spec2Model ----------------------------
(***************************************************************************)
(* A model of the ticket mining-and-aggregation core of the CS dashboard   *)
(* suite: the code-fix detector and link resolver of                       *)
(* analyze_combined_report.py, the flow-name normaliser, merger and        *)
(* per-integration aggregation of deep_dive_detailed_analysis.py, and the  *)
(* keyword classification ladders of analyze_combined_report.py,           *)
(* deep_dive_detailed_analysis.py and holiday_resolution_analysis.py.      *)
(*                                                                         *)
(* Text is modelled by TLA+ strings, which TLC treats as sequences of      *)
(* characters (Len, SubSeq, Head, Tail and \o apply to them).  A missing   *)
(* cell (pandas NaN) is the reserved string NaN: read_csv turns the empty  *)
(* cell and the usual null spellings into NaN, so no loaded cell holds it. *)
(***************************************************************************)
EXTENDS Integers, Sequences, FiniteSets, TLC

VARIABLES
    \* normalize_flow_name applied to one name, then to its own result
    flow_name, normalized, renormalized, norm_pc,
    \* analyze_code_fixes_with_links: the loaded table (its column names in
    \* order and its rows), the filtered rows, the loop position, the rows
    \* built so far, the returned frame, and the frame of the previous run
    df_columns, df, done_cases, cf_k, detailed_analysis, cf_result, cf_previous,
    cf_runs, cf_pc,
    \* extract_pre_prd_references: the text handed in and the list returned
    ref_text, pre_prd, ref_pc,
    \* the keyword ladders: the program that runs, the ticket it is given, and
    \* the labels it computes
    cls_program, cls_ticket, pattern, root_cause, determined_method, error_category,
    resolution_method, cls_pc,
    \* deep_dive_analysis: the loaded tickets, the row loop's position, the rows
    \* and the per-integration flow index it builds, the flow sheet, the merged
    \* frequent flows and the counts by integration
    dd_df, dd_k, detailed_data, integration_flows, flows_df, frequent_flows,
    integration_counts, dd_pc,
    \* analyze_combined_report: the loaded table (column names and rows), the
    \* row loop's position, the rows it builds, the figures of the summary
    \* sheets, and where the run is
    cr_columns, cr_df, cr_k, cases_data, cr_report, cr_pc,
    \* the text extractors of the deep dive: the ticket, the text they are
    \* given, and what each of them returns
    ex_ticket, ex_text, ex_flows, ex_mappings, ex_errors, ex_pre_prd, ex_record_types,
    ex_pc,
    \* the count by month of deep_dive_analysis: the date columns of the table,
    \* the tickets with their date cells, the frame of the cases, the months
    \* still to count, the rows counted and the sheet
    mo_columns, mo_df, cases_df, mo_months, monthly_counts, monthly_count_df, mo_pc,
    \* the runs of the three entry points: the program started from the command
    \* line, the program that runs now (the entry point or a subprocess of the
    \* master report), its step, the input, the step that raises, the files on
    \* disk, what the master report read, the return code of the last subprocess,
    \* the exit status and the number of the run
    rn_entry, rn_proc, rn_pc, rn_input, rn_fault, rn_files, rn_read, rn_returncode, rn_status, rn_run,
    \* the customer stage of the master report and the metrics of the dynamic
    \* dashboard: the program, the column names and rows of the table as the
    \* program holds it, the table as it was loaded, the figures built, and the
    \* step
    cu_program, cu_columns, cu_df, cu_loaded, cu_breakdown, cu_pc,
    \* classify_holiday_period of jira_mcp_excel_analyzer.py: the date text it is
    \* given and the period it returns
    hp_date, hp_period, hp_pc

norm_vars == <<flow_name, normalized, renormalized, norm_pc>>

cf_vars == <<df_columns, df, done_cases, cf_k, detailed_analysis, cf_result,
             cf_previous, cf_runs, cf_pc>>

ref_vars == <<ref_text, pre_prd, ref_pc>>

cls_vars == <<cls_program, cls_ticket, pattern, root_cause, determined_method,
              error_category, resolution_method, cls_pc>>

dd_vars == <<dd_df, dd_k, detailed_data, integration_flows, flows_df, frequent_flows,
             integration_counts, dd_pc>>

cr_vars == <<cr_columns, cr_df, cr_k, cases_data, cr_report, cr_pc>>

ex_vars == <<ex_ticket, ex_text, ex_flows, ex_mappings, ex_errors, ex_pre_prd,
             ex_record_types, ex_pc>>

mo_vars == <<mo_columns, mo_df, cases_df, mo_months, monthly_counts, monthly_count_df, mo_pc>>

rn_vars == <<rn_entry, rn_proc, rn_pc, rn_input, rn_fault, rn_files, rn_read, rn_returncode, rn_status, rn_run>>

cu_vars == <<cu_program, cu_columns, cu_df, cu_loaded, cu_breakdown, cu_pc>>

hp_vars == <<hp_date, hp_period, hp_pc>>

vars == <<norm_vars, cf_vars, ref_vars, cls_vars, dd_vars, cr_vars, ex_vars, mo_vars, rn_vars, cu_vars, hp_vars>>

\* what an action of one machine leaves alone of the others
not_norm == <<cf_vars, ref_vars, cls_vars, dd_vars, cr_vars, ex_vars, mo_vars, rn_vars, cu_vars, hp_vars>>
not_cf == <<norm_vars, ref_vars, cls_vars, dd_vars, cr_vars, ex_vars, mo_vars, rn_vars, cu_vars, hp_vars>>
not_ref == <<norm_vars, cf_vars, cls_vars, dd_vars, cr_vars, ex_vars, mo_vars, rn_vars, cu_vars, hp_vars>>
not_cls == <<norm_vars, cf_vars, ref_vars, dd_vars, cr_vars, ex_vars, mo_vars, rn_vars, cu_vars, hp_vars>>
not_dd == <<norm_vars, cf_vars, ref_vars, cls_vars, cr_vars, ex_vars, mo_vars, rn_vars, cu_vars, hp_vars>>
not_cr == <<norm_vars, cf_vars, ref_vars, cls_vars, dd_vars, ex_vars, mo_vars, rn_vars, cu_vars, hp_vars>>
not_ex == <<norm_vars, cf_vars, ref_vars, cls_vars, dd_vars, cr_vars, mo_vars, rn_vars, cu_vars, hp_vars>>
not_mo == <<norm_vars, cf_vars, ref_vars, cls_vars, dd_vars, cr_vars, ex_vars, rn_vars, cu_vars, hp_vars>>
not_rn == <<norm_vars, cf_vars, ref_vars, cls_vars, dd_vars, cr_vars, ex_vars, mo_vars, cu_vars, hp_vars>>
not_cu == <<norm_vars, cf_vars, ref_vars, cls_vars, dd_vars, cr_vars, ex_vars, mo_vars, rn_vars, hp_vars>>
not_hp == <<norm_vars, cf_vars, ref_vars, cls_vars, dd_vars, cr_vars, ex_vars, mo_vars, rn_vars, cu_vars>>

-----------------------------------------------------------------------------
(* Python string primitives                                                *)

NaN == "<NaN>"

\* what a function that builds a frame returns: None, or the frame of its rows
None == [is_none |-> TRUE, rows |-> <<>>]

DataFrame(rows) == [is_none |-> FALSE, rows |-> rows]

\* the values of a machine that a specification does not run
NormIdle ==
    /\ flow_name = ""
    /\ normalized = NaN
    /\ renormalized = NaN
    /\ norm_pc = "idle"

CodeFixIdle ==
    /\ df_columns = <<>>
    /\ df = <<>>
    /\ done_cases = <<>>
    /\ cf_k = 1
    /\ detailed_analysis = <<>>
    /\ cf_result = None
    /\ cf_previous = None
    /\ cf_runs = 1
    /\ cf_pc = "idle"

RefIdle ==
    /\ ref_text = ""
    /\ pre_prd = <<>>
    /\ ref_pc = "idle"

ClsIdle ==
    /\ cls_program = "none"
    /\ cls_ticket = <<>>
    /\ pattern = NaN
    /\ root_cause = NaN
    /\ determined_method = NaN
    /\ error_category = NaN
    /\ resolution_method = NaN
    /\ cls_pc = "idle"

DeepDiveIdle ==
    /\ dd_df = <<>>
    /\ dd_k = 1
    /\ detailed_data = <<>>
    /\ integration_flows = <<>>
    /\ flows_df = <<>>
    /\ frequent_flows = <<>>
    /\ integration_counts = <<>>
    /\ dd_pc = "idle"

CombinedIdle ==
    /\ cr_columns = <<>>
    /\ cr_df = <<>>
    /\ cr_k = 1
    /\ cases_data = <<>>
    /\ cr_report = <<>>
    /\ cr_pc = "idle"

ExtractIdle ==
    /\ ex_ticket = <<>>
    /\ ex_text = ""
    /\ ex_flows = <<>>
    /\ ex_mappings = <<>>
    /\ ex_errors = <<>>
    /\ ex_pre_prd = <<>>
    /\ ex_record_types = <<>>
    /\ ex_pc = "idle"

MonthsIdle ==
    /\ mo_columns = {}
    /\ mo_df = <<>>
    /\ cases_df = <<>>
    /\ mo_months = <<>>
    /\ monthly_counts = <<>>
    /\ monthly_count_df = <<>>
    /\ mo_pc = "idle"

RunIdle ==
    /\ rn_entry = "none"
    /\ rn_proc = "none"
    /\ rn_pc = "idle"
    /\ rn_input = "none"
    /\ rn_fault = <<>>
    /\ rn_files = <<>>
    /\ rn_read = <<>>
    /\ rn_returncode = 0
    /\ rn_status = 0
    /\ rn_run = 1

CustomersIdle ==
    /\ cu_program = "none"
    /\ cu_columns = <<>>
    /\ cu_df = <<>>
    /\ cu_loaded = <<>>
    /\ cu_breakdown = <<>>
    /\ cu_pc = "idle"

HolidayIdle ==
    /\ hp_date = ""
    /\ hp_period = NaN
    /\ hp_pc = "idle"

\* the machines other than the one a specification runs are idle
OthersIdle(machine) ==
    /\ IF machine = "norm" THEN TRUE ELSE NormIdle
    /\ IF machine = "cf" THEN TRUE ELSE CodeFixIdle
    /\ IF machine = "ref" THEN TRUE ELSE RefIdle
    /\ IF machine = "cls" THEN TRUE ELSE ClsIdle
    /\ IF machine = "dd" THEN TRUE ELSE DeepDiveIdle
    /\ IF machine = "cr" THEN TRUE ELSE CombinedIdle
    /\ IF machine = "ex" THEN TRUE ELSE ExtractIdle
    /\ IF machine = "mo" THEN TRUE ELSE MonthsIdle
    /\ IF machine = "rn" THEN TRUE ELSE RunIdle
    /\ IF machine = "cu" THEN TRUE ELSE CustomersIdle
    /\ IF machine = "hp" THEN TRUE ELSE HolidayIdle

MaxRuns == 2

notna(v) == v # NaN

\* str(v): a missing value prints as 'nan'
Str(v) == IF v = NaN THEN "nan" ELSE v

UpperAlpha == "ABCDEFGHIJKLMNOPQRSTUVWXYZ"
LowerAlpha == "abcdefghijklmnopqrstuvwxyz"
Digits == "0123456789"

CharAt(s, i) == SubSeq(s, i, i)

IndexIn(alphabet, c) ==
    IF \E i \in 1..Len(alphabet) : CharAt(alphabet, i) = c
    THEN CHOOSE i \in 1..Len(alphabet) : CharAt(alphabet, i) = c
    ELSE 0

UpperSet == {CharAt(UpperAlpha, i) : i \in 1..Len(UpperAlpha)}
LowerSet == {CharAt(LowerAlpha, i) : i \in 1..Len(LowerAlpha)}
DigitSet == {CharAt(Digits, i) : i \in 1..Len(Digits)}

LowerOf == [c \in UpperSet |-> CharAt(LowerAlpha, IndexIn(UpperAlpha, c))]
UpperOf == [c \in LowerSet |-> CharAt(UpperAlpha, IndexIn(LowerAlpha, c))]

LowerChar(c) == IF c \in UpperSet THEN LowerOf[c] ELSE c

UpperChar(c) == IF c \in LowerSet THEN UpperOf[c] ELSE c

\* c.lower() / c.upper() applied to every character; the text is halved at
\* each step so that a long text needs only a shallow evaluation
RECURSIVE Lower(_)
Lower(s) ==
    IF Len(s) <= 1 THEN LowerChar(s)
    ELSE LET h == Len(s) \div 2
         IN Lower(SubSeq(s, 1, h)) \o Lower(SubSeq(s, h + 1, Len(s)))

RECURSIVE Upper(_)
Upper(s) ==
    IF Len(s) <= 1 THEN UpperChar(s)
    ELSE LET h == Len(s) \div 2
         IN Upper(SubSeq(s, 1, h)) \o Upper(SubSeq(s, h + 1, Len(s)))

IsDigit(c) == c \in DigitSet

IsSpace(c) == c \in {" ", "\n", "\t"}

\* s[:n]
TakeFirst(s, n) == SubSeq(s, 1, IF n < Len(s) THEN n ELSE Len(s))

\* k in s
Contains(s, k) == \E i \in 1..(Len(s) - Len(k) + 1) : SubSeq(s, i, i + Len(k) - 1) = k

\* any(word in s for word in words), words a sequence of strings
AnyIn(s, words) == \E j \in 1..Len(words) : Contains(s, words[j])

\* s.find(k) + 1: the first place k occurs in s, 0 when it does not
Find(s, k) ==
    LET at == {i \in 1..(Len(s) - Len(k) + 1) : SubSeq(s, i, i + Len(k) - 1) = k}
    IN IF at = {} THEN 0 ELSE CHOOSE i \in at : \A j \in at : i <= j

\* str.replace(old, new): left to right, non-overlapping
RECURSIVE Replace(_, _, _)
Replace(s, old, new) ==
    LET i == Find(s, old)
    IN IF i = 0 THEN s
       ELSE SubSeq(s, 1, i - 1) \o new \o Replace(SubSeq(s, i + Len(old), Len(s)), old, new)

\* str.strip(): whitespace off both ends
Strip(s) ==
    LET keep == {i \in 1..Len(s) : ~IsSpace(CharAt(s, i))}
    IN IF keep = {} THEN ""
       ELSE SubSeq(s, CHOOSE i \in keep : \A j \in keep : i <= j,
                      CHOOSE i \in keep : \A j \in keep : j <= i)

\* str.split(): the maximal runs of non-whitespace, in order
Split(s) ==
    LET starts == {i \in 1..Len(s) : ~IsSpace(CharAt(s, i))
                                     /\ (i = 1 \/ IsSpace(CharAt(s, i - 1)))}
        ends == {i \in 1..Len(s) : ~IsSpace(CharAt(s, i))
                                   /\ (i = Len(s) \/ IsSpace(CharAt(s, i + 1)))}
        nth(S, k) == CHOOSE p \in S : Cardinality({q \in S : q < p}) = k - 1
    IN [k \in 1..Cardinality(starts) |-> SubSeq(s, nth(starts, k), nth(ends, k))]

\* sep.join(parts)
RECURSIVE Join(_, _)
Join(parts, sep) ==
    IF Len(parts) = 0 THEN ""
    ELSE IF Len(parts) = 1 THEN parts[1]
    ELSE LET h == Len(parts) \div 2
         IN Join(SubSeq(parts, 1, h), sep) \o sep \o Join(SubSeq(parts, h + 1, Len(parts)), sep)

\* ' '.join(s.split()): runs of whitespace become one space, the ends are trimmed
JoinSplit(s) == Join(Split(s), " ")

-----------------------------------------------------------------------------
(* deep_dive_detailed_analysis.py: normalize_flow_name                     *)

\* the replacements dict, in insertion order
replacements == <<
    <<"salesorder", "sales order">>,
    <<"purchaseorder", "purchase order">>,
    <<"itemfulfillment", "item fulfillment">>,
    <<"cashsale", "cash sale">>,
    <<"creditmemo", "credit memo">>,
    <<"customerdeposit", "customer deposit">>,
    <<"customerpayment", "customer payment">>,
    <<"journalentry", "journal entry">>,
    <<"to netsuite", "→ netsuite">>,
    <<"from netsuite", "netsuite →">>,
    <<"to ns", "→ netsuite">>,
    <<"from ns", "netsuite →">>,
    <<"sf to", "salesforce →">>,
    <<"to sf", "→ salesforce">>,
    <<"from sf", "salesforce →">>,
    <<"shopify to", "shopify →">>,
    <<"to shopify", "→ shopify">>,
    <<"amazon to", "amazon →">>,
    <<"to amazon", "→ amazon">>,
    <<"bigcommerce to", "bigcommerce →">>,
    <<"to bigcommerce", "→ bigcommerce">> >>

\* flow.replace(ps[i], '').replace(ps[i + 1], '')... to the end of ps.  Each
\* intermediate text is bound by a quantifier, so that it is computed before
\* the next replacement starts
RECURSIVE RemoveFrom(_, _, _)
RemoveFrom(s, ps, i) ==
    IF i > Len(ps) THEN s
    ELSE CHOOSE r \in {RemoveFrom(t, ps, i + 1) : t \in {Replace(s, ps[i], "")}} : TRUE

RemoveAll(s, ps) == RemoveFrom(s, ps, 1)

\* for old, new in table: flow = flow.replace(old, new), from entry i on
RECURSIVE ReplaceFrom(_, _, _)
ReplaceFrom(s, table, i) ==
    IF i > Len(table) THEN s
    ELSE CHOOSE r \in {ReplaceFrom(t, table, i + 1) :
                          t \in {Replace(s, table[i][1], table[i][2])}} : TRUE

ReplaceEach(s, table) == ReplaceFrom(s, table, 1)

normalize_flow_name(name) ==
    IF name = "" \/ name = NaN THEN ""
    ELSE LET flow0 == Strip(Lower(name))
             flow1 == RemoveAll(flow0, <<"the ", "a ", "an ">>)
             flow2 == RemoveAll(flow1, <<" flow", " sync", " import", " export">>)
             flow3 == ReplaceEach(flow2, replacements)
         IN JoinSplit(flow3)

-----------------------------------------------------------------------------
(* analyze_combined_report.py: extract_all_refs                            *)

\* (PRE-\d+|PRD-\d+|IO-\d+|FEATURE-\d+), the alternatives in order
RefPrefixes == <<"PRE-", "PRD-", "IO-", "FEATURE-">>

\* the end of the greedy run of digits that starts at j (j holds a digit)
DigitsEnd(s, j) ==
    CHOOSE e \in j..Len(s) :
        /\ \A k \in j..e : IsDigit(CharAt(s, k))
        /\ (e = Len(s) \/ ~IsDigit(CharAt(s, e + 1)))

\* the end of the match of <prefix>\d+ at place i under re.IGNORECASE, 0 for none
MatchAt(prefixes, s, i) ==
    LET hits == {n \in 1..Len(prefixes) :
                    /\ i + Len(prefixes[n]) <= Len(s)
                    /\ IsDigit(CharAt(s, i + Len(prefixes[n])))
                    /\ Upper(SubSeq(s, i, i + Len(prefixes[n]) - 1)) = prefixes[n]}
    IN IF hits = {} THEN 0
       ELSE DigitsEnd(s, i + Len(prefixes[CHOOSE n \in hits : \A m \in hits : n <= m]))

\* re.findall(pattern, s, re.IGNORECASE) from place i on: the scan takes the
\* match at the leftmost place that has one and goes on after its end
RECURSIVE FindAllFrom(_, _, _)
FindAllFrom(prefixes, s, i) ==
    LET places == {j \in i..Len(s) : MatchAt(prefixes, s, j) # 0}
    IN IF places = {} THEN <<>>
       ELSE LET j == CHOOSE p \in places : \A q \in places : p <= q
                e == MatchAt(prefixes, s, j)
            IN <<SubSeq(s, j, e)>> \o FindAllFrom(prefixes, s, e + 1)

FindAll(prefixes, s) == FindAllFrom(prefixes, s, 1)

Range(seq) == {seq[i] : i \in 1..Len(seq)}

\* set([m.upper() for m in matches])
unique_matches(text) == {Upper(m) : m \in Range(FindAll(RefPrefixes, text))}

\* col.split('(')[0].strip()
SourceLabel(col) ==
    LET i == Find(col, "(") IN Strip(IF i = 0 THEN col ELSE SubSeq(col, 1, i - 1))

\* f"{label} ({count})"
SourceEntry(col, n) == SourceLabel(col) \o " (" \o ToString(n) \o ")"

\* the loop of extract_all_refs from column i on, all_refs held as a set
RECURSIVE ExtractFrom(_, _, _, _, _)
ExtractFrom(row, columns_to_check, i, all_refs, source_info) ==
    IF i > Len(columns_to_check) THEN [refs |-> all_refs, source_info |-> source_info]
    ELSE LET col == columns_to_check[i]
         IN IF col \in DOMAIN row /\ notna(row[col])
            THEN LET matches == unique_matches(Str(row[col]))
                 IN IF matches # {}
                    THEN ExtractFrom(row, columns_to_check, i + 1, all_refs \cup matches,
                                     Append(source_info, SourceEntry(col, Cardinality(matches))))
                    ELSE ExtractFrom(row, columns_to_check, i + 1, all_refs, source_info)
            ELSE ExtractFrom(row, columns_to_check, i + 1, all_refs, source_info)

\* extract_all_refs(row, columns_to_check): refs is set(all_refs), which the code
\* turns into a list in an order of the set's own; source_info is the list
extract_all_refs(row, columns_to_check) == ExtractFrom(row, columns_to_check, 1, {}, <<>>)

-----------------------------------------------------------------------------
(* analyze_combined_report.py: analyze_code_fixes_with_links               *)

ResolvesCol == "Inward issue link (Resolves)"

link_columns == <<
    "Inward issue link (Resolves)",
    "Outward issue link (Relates)",
    "Inward issue link (Relates)",
    "Inward issue link (Problem/Incident)",
    "Inward issue link (Dependencies)",
    "Comment",
    "Description",
    "Resolution Comment" >>

\* row[col] if col in row.index and pd.notna(row[col]) else default
CellOr(row, col, default) ==
    IF col \in DOMAIN row /\ notna(row[col]) THEN row[col] ELSE default

\* [col for col in df.columns if a in col.lower() and 'custom field' in col.lower()]
CustomFieldCols(columns, a) ==
    SelectSeq(columns, LAMBDA c : Contains(Lower(c), a) /\ Contains(Lower(c), "custom field"))

\* row[cols[0]] if cols and pd.notna(row[cols[0]]) else 'N/A'
FirstColOrNA(row, cols) ==
    IF Len(cols) > 0 /\ notna(row[cols[1]]) THEN row[cols[1]] ELSE "N/A"

resolves_link(row) == CellOr(row, ResolvesCol, "None")

\* f"{description} {comments} {resolution_comment}".upper()
all_text(row) ==
    Upper(CellOr(row, "Description", "") \o " " \o CellOr(row, "Comment", "") \o " "
          \o CellOr(row, "Resolution Comment", ""))

\* the ladder with the deploy/hotfix rung tried before the extracted references
Classification_KeywordFirst(row, all_refs) ==
    LET link == resolves_link(row)
        text == all_text(row)
    IN IF link # "None"
          /\ (Contains(link, "PRE-") \/ Contains(link, "PRD-") \/ Contains(link, "IO-"))
       THEN [classification |-> "Code Fix (Resolves Link)", confidence |-> "High",
             action |-> "Document fix details"]
       ELSE IF Contains(text, "DEPLOY") \/ Contains(text, "HOTFIX")
       THEN [classification |-> "Likely Code Fix (Deploy/Hotfix)", confidence |-> "Medium",
             action |-> "Verify and document"]
       ELSE IF Cardinality(all_refs) > 0
       THEN [classification |-> "Code Fix (Related Links)", confidence |-> "High",
             action |-> "Document fix details"]
       ELSE IF Contains(text, "BUG FIX") \/ Contains(text, "FIXED IN")
       THEN [classification |-> "Likely Code Fix (Fix Mentioned)", confidence |-> "Medium",
             action |-> "Verify and document"]
       ELSE [classification |-> "Not Code Fix / Unknown", confidence |-> "Low",
             action |-> "Review or skip"]

\* the if/elif ladder of the classification logic; the status emoji that
\* starts each label in the source is left out
Classification(row, all_refs) ==
    LET link == resolves_link(row)
        text == all_text(row)
    IN IF link # "None"
          /\ (Contains(link, "PRE-") \/ Contains(link, "PRD-") \/ Contains(link, "IO-"))
       THEN [classification |-> "Code Fix (Resolves Link)", confidence |-> "High",
             action |-> "Document fix details"]
       ELSE IF Cardinality(all_refs) > 0
       THEN [classification |-> "Code Fix (Related Links)", confidence |-> "High",
             action |-> "Document fix details"]
       ELSE IF Contains(text, "DEPLOY") \/ Contains(text, "HOTFIX")
       THEN [classification |-> "Likely Code Fix (Deploy/Hotfix)", confidence |-> "Medium",
             action |-> "Verify and document"]
       ELSE IF Contains(text, "BUG FIX") \/ Contains(text, "FIXED IN")
       THEN [classification |-> "Likely Code Fix (Fix Mentioned)", confidence |-> "Medium",
             action |-> "Verify and document"]
       ELSE [classification |-> "Not Code Fix / Unknown", confidence |-> "Low",
             action |-> "Review or skip"]

\* the orders in which list(set(all_refs)) may list a set
Orderings(S) ==
    {o \in [1..Cardinality(S) -> S] : \A i, j \in 1..Cardinality(S) : i # j => o[i] # o[j]}

\* all_refs never emptied between rows: row k sees the references of rows 1..k
RowRefs_Carried(rows, k) ==
    UNION {extract_all_refs(rows[j], link_columns).refs : j \in 1..k}

\* all_refs as the loop body of row k sees it
RowRefs(rows, k) == extract_all_refs(rows[k], link_columns).refs

\* the record appended for row k of done_cases; ref_list is list(set(all_refs))
AnalysisRow(columns, rows, k, ref_list) ==
    LET row == rows[k]
        found == extract_all_refs(row, link_columns)
        label == Classification(row, RowRefs(rows, k))
    IN [case_key |-> row["Issue key"],
        classification |-> label.classification,
        confidence |-> label.confidence,
        resolves_link |-> resolves_link(row),
        all_linked_items |-> IF Len(ref_list) > 0 THEN Join(ref_list, ", ") ELSE "None",
        link_count |-> Len(ref_list),
        link_sources |-> IF Len(found.source_info) > 0
                         THEN Join(found.source_info, ", ") ELSE "None",
        case_type |-> FirstColOrNA(row, CustomFieldCols(columns, "case type")),
        priority |-> CellOr(row, "Priority", "N/A"),
        integration |-> FirstColOrNA(row, CustomFieldCols(columns, "integration app")),
        summary |-> row["Summary"],
        action |-> label.action]

\* done_cases = df[df['Resolution'] == 'Done']; an empty selection returns None
FilterDone ==
    /\ cf_pc = "start"
    /\ done_cases' = SelectSeq(df, LAMBDA row : row["Resolution"] = "Done")
    /\ IF Len(done_cases') = 0
       THEN cf_pc' = "returned" /\ cf_result' = None
       ELSE cf_pc' = "loop" /\ cf_result' = cf_result
    /\ cf_k' = 1
    /\ detailed_analysis' = <<>>
    /\ UNCHANGED <<not_cf, df_columns, df, cf_previous, cf_runs>>

\* one turn of: for idx, row in done_cases.iterrows()
AnalyzeRow ==
    /\ cf_pc = "loop"
    /\ cf_k <= Len(done_cases)
    /\ \E ref_list \in Orderings(RowRefs(done_cases, cf_k)) :
          detailed_analysis' =
              Append(detailed_analysis, AnalysisRow(df_columns, done_cases, cf_k, ref_list))
    /\ cf_k' = cf_k + 1
    /\ UNCHANGED <<not_cf, df_columns, df, done_cases, cf_result, cf_previous, cf_runs, cf_pc>>

\* return pd.DataFrame(detailed_analysis)
ReturnFrame ==
    /\ cf_pc = "loop"
    /\ cf_k > Len(done_cases)
    /\ cf_result' = DataFrame(detailed_analysis)
    /\ cf_pc' = "returned"
    /\ UNCHANGED <<not_cf, df_columns, df, done_cases, cf_k, detailed_analysis, cf_previous, cf_runs>>

\* analyze_code_fixes_with_links called again on the same table
Rerun ==
    /\ cf_pc = "returned"
    /\ cf_runs < MaxRuns
    /\ cf_previous' = cf_result
    /\ cf_runs' = cf_runs + 1
    /\ cf_pc' = "start"
    /\ UNCHANGED <<not_cf, df_columns, df, done_cases, cf_k, detailed_analysis, cf_result>>

-----------------------------------------------------------------------------
(* The tables handed to analyze_code_fixes_with_links: up to MaxTickets    *)
(* rows over one of two column layouts, every cell drawn from CellValues.  *)

MaxTickets == 2

FullColumns == <<"Issue key", "Summary", "Priority", "Resolution", "Description",
                 "Custom field (Case Type)", "Custom field (Integration Apps)",
                 "Inward issue link (Resolves)", "Comment">>

BareColumns == <<"Issue key", "Summary", "Priority", "Resolution", "Description">>

CellValues(c) ==
    CASE c = "Issue key" -> {"CS-0"}
      [] c = "Summary" -> {"Order sync failing"}
      [] c = "Priority" -> {"P2"}
      [] c = "Resolution" -> {"Done", "Fixed"}
      [] c = "Description" -> {NaN, "Deployed hotfix", "Fixed in v2"}
      [] c = "Custom field (Case Type)" -> {"Bug"}
      [] c = "Custom field (Integration Apps)" -> {NaN}
      [] c = "Inward issue link (Resolves)" -> {NaN, "PRD-9", "prd-9", "FEATURE-8", "PRE-release"}
      [] c = "Comment" -> {NaN, "see feature-8, PRD-9 and FEATURE-8"}

RECURSIVE RowsOver(_, _)
RowsOver(cols, n) ==
    IF n = 0 THEN {<<>>}
    ELSE {r @@ (cols[n] :> v) : r \in RowsOver(cols, n - 1), v \in CellValues(cols[n])}

\* rows that are not Done are dropped by the filter: one of them is enough
TicketRows(cols) ==
    {r \in RowsOver(cols, Len(cols)) :
        r["Resolution"] = "Done"
        \/ \A c \in DOMAIN r : c \in {"Description", "Comment", ResolvesCol} => r[c] = NaN}

\* the issue key is unique in a table
Tables(cols, n) ==
    UNION {{[i \in 1..k |-> [t[i] EXCEPT !["Issue key"] = "CS-" \o ToString(i)]] :
               t \in [1..k -> TicketRows(cols)]} : k \in 0..n}

InitCodeFix ==
    /\ OthersIdle("cf")
    /\ df_columns \in {FullColumns, BareColumns}
    /\ df \in Tables(df_columns, MaxTickets)
    /\ done_cases = <<>>
    /\ cf_k = 1
    /\ detailed_analysis = <<>>
    /\ cf_result = None
    /\ cf_previous = None
    /\ cf_runs = 1
    /\ cf_pc = "start"

NextCodeFix == FilterDone \/ AnalyzeRow \/ ReturnFrame \/ Rerun

SpecCodeFix == InitCodeFix /\ [][NextCodeFix]_vars

-----------------------------------------------------------------------------
(* Properties of the code-fix detector                                     *)

\* the five tiers as a table: the condition of each as the code tests it, its
\* label and its confidence
TierHolds(n, row) ==
    CASE n = 1 -> /\ resolves_link(row) # "None"
                  /\ \E p \in {"PRE-", "PRD-", "IO-"} : Contains(resolves_link(row), p)
      [] n = 2 -> extract_all_refs(row, link_columns).refs # {}
      [] n = 3 -> \E w \in {"DEPLOY", "HOTFIX"} : Contains(all_text(row), w)
      [] n = 4 -> \E w \in {"BUG FIX", "FIXED IN"} : Contains(all_text(row), w)
      [] n = 5 -> TRUE

TierLabel == <<"Code Fix (Resolves Link)", "Code Fix (Related Links)",
               "Likely Code Fix (Deploy/Hotfix)", "Likely Code Fix (Fix Mentioned)",
               "Not Code Fix / Unknown">>

TierConfidence == <<"High", "High", "Medium", "Medium", "Low">>

FirstTier(row) ==
    CHOOSE n \in 1..5 : TierHolds(n, row) /\ \A m \in 1..(n - 1) : ~TierHolds(m, row)

\* the rows of the returned frame that carry the key of ticket t of the table
ResultRowsOf(t) ==
    {i \in 1..Len(cf_result.rows) : cf_result.rows[i].case_key = df[t]["Issue key"]}

\* C1: every ticket with Resolution 'Done' is returned with the label and the
\* confidence of the first of the five tiers, in their order, whose condition
\* holds for it.
C1_FirstTierWins ==
    cf_pc = "returned" =>
        \A t \in 1..Len(df) :
            df[t]["Resolution"] = "Done" =>
                /\ Cardinality(ResultRowsOf(t)) = 1
                /\ \A i \in ResultRowsOf(t) :
                      /\ cf_result.rows[i].classification = TierLabel[FirstTier(df[t])]
                      /\ cf_result.rows[i].confidence = TierConfidence[FirstTier(df[t])]

\* a returned ticket that satisfies the conditions of tiers 2 and 3 and has the
\* label of tier 2
C1_Witness ==
    /\ cf_pc = "returned"
    /\ \E t \in 1..Len(df) :
          /\ df[t]["Resolution"] = "Done"
          /\ ~TierHolds(1, df[t]) /\ TierHolds(2, df[t]) /\ TierHolds(3, df[t])
          /\ \E i \in ResultRowsOf(t) :
                cf_result.rows[i].classification = "Code Fix (Related Links)"

\* C2: every ticket with Resolution 'Done' whose Resolves field holds an ID
\* with one of the reference prefixes is returned with confidence High and the
\* label 'Code Fix (Resolves Link)'.
C2_ResolvesLinkIsTierOne ==
    cf_pc = "returned" =>
        \A t \in 1..Len(df) :
            (/\ df[t]["Resolution"] = "Done"
             /\ ResolvesCol \in DOMAIN df[t]
             /\ notna(df[t][ResolvesCol])
             /\ unique_matches(df[t][ResolvesCol]) # {}) =>
                \A i \in ResultRowsOf(t) :
                    /\ cf_result.rows[i].classification = "Code Fix (Resolves Link)"
                    /\ cf_result.rows[i].confidence = "High"

\* the listed fields that are a field of the row, hold a value and have a match
Contributing(row, columns_to_check) ==
    SelectSeq(columns_to_check, LAMBDA c : /\ c \in DOMAIN row
                                           /\ notna(row[c])
                                           /\ unique_matches(Str(row[c])) # {})

\* C6: for every analysed row, extract_all_refs returns the union of the
\* uppercase IDs of the listed fields and one provenance entry per field that
\* is present, holds a value and has a match, each entry naming its field and
\* carrying the number of distinct IDs found in it.
C6_ProvenanceNamesField ==
    \A i \in 1..Len(detailed_analysis) :
        LET row == done_cases[i]
            found == extract_all_refs(row, link_columns)
            used == Contributing(row, link_columns)
        IN /\ found.refs = UNION {unique_matches(Str(row[used[j]])) : j \in 1..Len(used)}
           /\ Len(found.source_info) = Len(used)
           /\ \A j \in 1..Len(used) :
                 /\ Contains(found.source_info[j], used[j])
                 /\ Contains(found.source_info[j],
                             "(" \o ToString(Cardinality(unique_matches(Str(row[used[j]])))) \o ")")
           /\ detailed_analysis[i].link_count = Cardinality(found.refs)

\* what the analysis gives a ticket that is the only row of its table
Alone(row) == AnalysisRow(df_columns, <<row>>, 1, <<>>)

\* C9: a ticket's label, confidence and action are those it gets as the only
\* row of a table, whatever its position and the other rows, and a second run
\* on the same table returns them again.
C9_OwnFieldsOnly ==
    /\ \A i \in 1..Len(detailed_analysis) :
          LET alone == Alone(done_cases[i])
          IN /\ detailed_analysis[i].classification = alone.classification
             /\ detailed_analysis[i].confidence = alone.confidence
             /\ detailed_analysis[i].action = alone.action
    /\ (cf_pc = "returned" /\ cf_runs > 1) =>
          /\ cf_result.is_none = cf_previous.is_none
          /\ Len(cf_result.rows) = Len(cf_previous.rows)
          /\ \A i \in 1..Len(cf_result.rows) :
                /\ cf_result.rows[i].case_key = cf_previous.rows[i].case_key
                /\ cf_result.rows[i].classification = cf_previous.rows[i].classification
                /\ cf_result.rows[i].confidence = cf_previous.rows[i].confidence
                /\ cf_result.rows[i].action = cf_previous.rows[i].action

\* a second run has returned two tickets of different tiers, the second one
\* after a ticket with references, and listed the first one's references in
\* another order than the first run
C9_Witness ==
    /\ cf_pc = "returned" /\ cf_runs > 1
    /\ Len(cf_result.rows) = 2
    /\ cf_result.rows[1].link_count > 0
    /\ cf_result.rows[2].link_count = 0
    /\ cf_result.rows[1].classification # cf_result.rows[2].classification
    /\ cf_result.rows[1].all_linked_items # cf_previous.rows[1].all_linked_items

-----------------------------------------------------------------------------
(* Flow names handed to normalize_flow_name: up to MaxNameWords words of   *)
(* NameWords, separated by one or two spaces.                              *)

MaxNameWords == 3

NameWords == {"the", "Order", "to", "from", "ns", "netsuite", "flow", "sync", "salesorder"}

NameSeps == {" ", "  "}

RECURSIVE Phrases(_, _, _)
Phrases(words, seps, n) ==
    IF n <= 1 THEN words
    ELSE LET shorter == Phrases(words, seps, n - 1)
         IN shorter \cup {p \o sep \o w : p \in shorter, sep \in seps, w \in words}

FlowNameInputs == Phrases(NameWords, NameSeps, MaxNameWords)

InitNorm ==
    /\ OthersIdle("norm")
    /\ flow_name \in FlowNameInputs
    /\ normalized = NaN
    /\ renormalized = NaN
    /\ norm_pc = "start"

\* flows_df['Flow Name'].apply(normalize_flow_name)
Normalize ==
    /\ norm_pc = "start"
    /\ normalized' = normalize_flow_name(flow_name)
    /\ norm_pc' = "normalized"
    /\ UNCHANGED <<flow_name, renormalized, not_norm>>

\* the normalised name handed to normalize_flow_name again
Renormalize ==
    /\ norm_pc = "normalized"
    /\ renormalized' = normalize_flow_name(normalized)
    /\ norm_pc' = "done"
    /\ UNCHANGED <<flow_name, normalized, not_norm>>

NextNorm == Normalize \/ Renormalize

SpecNorm == InitNorm /\ [][NextNorm]_vars

\* C3: flow-name normalisation is idempotent: normalising a normalised name
\* returns it unchanged.
C3_NormalizeIdempotent == norm_pc = "done" => renormalized = normalized

-----------------------------------------------------------------------------
(* deep_dive_detailed_analysis.py: extract_pre_prd_references              *)

\* (PR[ED]-\d+)
PrePrdPrefixes == <<"PRE-", "PRD-">>

RefLimit == 20

\* the lists list(S)[:n] may be: the set in an order of its own, cut at n
Listings(S, n) == {TakeFirst(o, n) : o \in Orderings(S)}

\* the lists extract_pre_prd_references(text) may return
extract_pre_prd_references(text) ==
    IF text = NaN THEN {<<>>}
    ELSE Listings(Range(FindAll(PrePrdPrefixes, Str(text))), RefLimit)

MaxRefTokens == 3

RefTokens == {"pre-100", "PRE-100", "PRD-7", "see", "io-3x"}

RefTexts == {NaN} \cup Phrases(RefTokens, {" "}, MaxRefTokens)

InitRefs ==
    /\ OthersIdle("ref")
    /\ ref_text \in RefTexts
    /\ pre_prd = <<>>
    /\ ref_pc = "start"

\* pre_prd = extract_pre_prd_references(all_text)
ExtractRefs ==
    /\ ref_pc = "start"
    /\ pre_prd' \in extract_pre_prd_references(ref_text)
    /\ ref_pc' = "done"
    /\ UNCHANGED <<ref_text, not_ref>>

NextRefs == ExtractRefs

SpecRefs == InitRefs /\ [][NextRefs]_vars

\* C5: the text-level reference extractor returns each reference ID once and
\* in uppercase: no entry has a lowercase letter and no two entries differ only
\* in letter case.
C5_OnceAndUppercase ==
    ref_pc = "done" =>
        /\ \A i \in 1..Len(pre_prd) : pre_prd[i] = Upper(pre_prd[i])
        /\ \A i, j \in 1..Len(pre_prd) : i # j => Upper(pre_prd[i]) # Upper(pre_prd[j])

-----------------------------------------------------------------------------
(* The keyword ladders: analyze_combined_report.py categorize_*_pattern,   *)
(* holiday_resolution_analysis.py determine_root_cause and                 *)
(* determine_resolution_method, deep_dive_detailed_analysis.py             *)
(* categorize_error                                                        *)


\* the bug ladder with the 'Code Error' rung tried before 'Data Mapping/Sync'
categorize_bug_pattern_swapped(summary, description) ==
    LET full_text == Lower(Str(summary) \o " " \o Str(description))
    IN IF AnyIn(full_text, <<"auth", "token", "credential", "unauthorized">>)
       THEN "Authentication"
       ELSE IF AnyIn(full_text, <<"error", "exception", "failed">>)
       THEN "Code Error"
       ELSE IF AnyIn(full_text, <<"mapping", "field", "sync">>)
       THEN "Data Mapping/Sync"
       ELSE IF AnyIn(full_text, <<"config", "setup", "configuration">>)
       THEN "Configuration"
       ELSE "Other"

categorize_bug_pattern(summary, description) ==
    LET full_text == Lower(Str(summary) \o " " \o Str(description))
    IN IF AnyIn(full_text, <<"auth", "token", "credential", "unauthorized">>)
       THEN "Authentication"
       ELSE IF AnyIn(full_text, <<"mapping", "field", "sync">>)
       THEN "Data Mapping/Sync"
       ELSE IF AnyIn(full_text, <<"error", "exception", "failed">>)
       THEN "Code Error"
       ELSE IF AnyIn(full_text, <<"config", "setup", "configuration">>)
       THEN "Configuration"
       ELSE "Other"

\* the query ladder ending in the other ladders' 'Other'
categorize_query_pattern_other(summary, description) ==
    LET full_text == Lower(Str(summary) \o " " \o Str(description))
    IN IF AnyIn(full_text, <<"how", "documentation", "guide">>)
       THEN "How-To Question"
       ELSE IF AnyIn(full_text, <<"why", "explain", "reason">>)
       THEN "Why Question"
       ELSE IF AnyIn(full_text, <<"setup", "configure", "install">>)
       THEN "Configuration Question"
       ELSE "Other"

categorize_query_pattern(summary, description) ==
    LET full_text == Lower(Str(summary) \o " " \o Str(description))
    IN IF AnyIn(full_text, <<"how", "documentation", "guide">>)
       THEN "How-To Question"
       ELSE IF AnyIn(full_text, <<"why", "explain", "reason">>)
       THEN "Why Question"
       ELSE IF AnyIn(full_text, <<"setup", "configure", "install">>)
       THEN "Configuration Question"
       ELSE "General Query"

categorize_doc_enhancement_pattern(summary, description) ==
    LET full_text == Lower(Str(summary) \o " " \o Str(description))
    IN IF AnyIn(full_text, <<"documentation", "doc", "guide", "tutorial">>)
       THEN "Documentation Update"
       ELSE IF AnyIn(full_text, <<"feature", "enhancement", "improve">>)
       THEN "Feature Enhancement"
       ELSE IF AnyIn(full_text, <<"compliance", "audit", "report">>)
       THEN "Compliance/Reporting"
       ELSE "Other"

\* the second if-chain reads the resolution comments alone, when there are any
determine_root_cause(combined_text, resolution_comments) ==
    LET comments_text == Lower(Str(resolution_comments))
    IN IF AnyIn(combined_text, <<"holiday", "peak", "high volume", "increased load", "seasonal">>)
       THEN "Holiday Season Volume"
       ELSE IF AnyIn(combined_text, <<"configuration", "setup", "config", "not configured", "misconfigured">>)
       THEN "Configuration Error"
       ELSE IF AnyIn(combined_text, <<"api", "rate limit", "quota", "endpoint", "request failed">>)
       THEN "API Limitations"
       ELSE IF AnyIn(combined_text, <<"authentication", "auth", "token", "credential", "unauthorized", "401", "403">>)
       THEN "Authentication Failure"
       ELSE IF AnyIn(combined_text, <<"mapping", "field", "invalid field", "missing field", "field mapping">>)
       THEN "Data Mapping Issue"
       ELSE IF AnyIn(combined_text, <<"sync", "synchronization", "not syncing", "sync error", "sync failed">>)
       THEN "Data Synchronization Problem"
       ELSE IF AnyIn(combined_text, <<"performance", "slow", "timeout", "delay", "lag", "bottleneck">>)
       THEN "Performance Issue"
       ELSE IF AnyIn(combined_text, <<"validation", "invalid", "required", "format", "data format">>)
       THEN "Data Validation Error"
       ELSE IF AnyIn(combined_text, <<"duplicate", "duplication", "duplicated", "already exists">>)
       THEN "Duplicate Data Issue"
       ELSE IF AnyIn(combined_text, <<"connection", "connectivity", "network", "disconnect", "connection failed">>)
       THEN "Connection Problem"
       ELSE IF AnyIn(combined_text, <<"script", "code", "bug", "error", "exception", "crash">>)
       THEN "Code/Script Error"
       ELSE IF AnyIn(combined_text, <<"external", "third party", "vendor", "partner", "system down">>)
       THEN "External System Issue"
       ELSE IF notna(resolution_comments) /\ Contains(comments_text, "customer")
               /\ (Contains(comments_text, "advised") \/ Contains(comments_text, "informed"))
       THEN "Customer Education Needed"
       ELSE IF notna(resolution_comments)
               /\ (Contains(comments_text, "workaround") \/ Contains(comments_text, "temporary"))
       THEN "Requires Workaround"
       ELSE IF notna(resolution_comments)
               /\ (Contains(comments_text, "escalated") \/ Contains(comments_text, "dev team"))
       THEN "Engineering Issue"
       ELSE "Unknown/Other"

determine_resolution_method(resolution_comments) ==
    LET comments_text == Lower(Str(resolution_comments))
    IN IF resolution_comments = NaN \/ Strip(Str(resolution_comments)) \in {"", "nan"}
       THEN "No Resolution Comments"
       ELSE IF AnyIn(comments_text, <<"fixed", "resolved", "implemented", "deployed", "code fix", "bug fix">>)
       THEN "Code Fix"
       ELSE IF AnyIn(comments_text, <<"workaround", "work-around", "temporary", "interim", "manual">>)
       THEN "Workaround Applied"
       ELSE IF AnyIn(comments_text, <<"customer advised", "customer informed", "customer told", "guided", "instructed">>)
       THEN "Customer Guidance"
       ELSE IF AnyIn(comments_text, <<"configuration", "setup", "reconfigured", "reauthorized", "settings">>)
       THEN "Configuration Change"
       ELSE IF AnyIn(comments_text, <<"escalated", "escalation", "dev team", "engineering", "product team">>)
       THEN "Escalated to Engineering"
       ELSE IF AnyIn(comments_text, <<"data", "record", "deleted", "updated", "corrected">>)
       THEN "Data Fix"
       ELSE IF AnyIn(comments_text, <<"external", "vendor", "partner", "third party">>)
       THEN "External Resolution"
       ELSE IF AnyIn(comments_text, <<"no action", "not needed", "by design", "expected behavior">>)
       THEN "No Action Required"
       ELSE "Other/Unknown"

categorize_error(error_text) ==
    LET error_lower == Lower(Str(error_text))
    IN IF error_text = NaN \/ Str(error_text) \in {"N/A", "Not specified"}
       THEN "Unspecified"
       ELSE IF AnyIn(error_lower, <<"hook error", "hook function", "script error", "nlobjsearch", "customscript", "scriptid">>)
       THEN "Hook/Script Error"
       ELSE IF AnyIn(error_lower, <<"kit definition", "bom", "kit component", "member item">>)
       THEN "Kit/BOM Issue"
       ELSE IF AnyIn(error_lower, <<"storemap", "store map", "missing storemap">>)
       THEN "Storemap Issue"
       ELSE IF AnyIn(error_lower, <<"integration app", "cannot delete a resource that belongs to", "ia deleted", "ia error">>)
       THEN "Integration App Error"
       ELSE IF AnyIn(error_lower, <<"sublist", "invalid sublist", "sublist operation", "line item">>)
       THEN "Sublist Operation"
       ELSE IF AnyIn(error_lower, <<"search", "searchid", "unable to get export searchid", "invalid search">>)
       THEN "Search/Query Error"
       ELSE IF AnyIn(error_lower, <<"webhook", "web hook">>)
       THEN "Webhook Error"
       ELSE IF AnyIn(error_lower, <<"401", "403", "unauthorized", "authentication", "token", "auth", "jwt", "credential", "reauthenticate">>)
       THEN "Authentication"
       ELSE IF AnyIn(error_lower, <<"mapping error", "field error", "missing field", "invalid field", "invalid column">>)
       THEN "Mapping/Field"
       ELSE IF AnyIn(error_lower, <<"failed to create", "failed to update", "failed to save", "failed to add", "cannot create", "unable to create">>)
       THEN "Record Creation/Update"
       ELSE IF AnyIn(error_lower, <<"rate limit", "too many requests", "429", "performance", "slow">>)
       THEN "Rate Limit/Performance"
       ELSE IF AnyIn(error_lower, <<"validation", "invalid value", "invalid format", "required", "must be", "must enter">>)
       THEN "Data Validation"
       ELSE IF AnyIn(error_lower, <<"connection", "network", "502", "503", "504", "unreachable", "timeout", "timed out">>)
       THEN "Network/Connection"
       ELSE IF AnyIn(error_lower, <<"api error", "400", "404", "500", "bad request", "status code">>)
       THEN "API Error"
       ELSE IF AnyIn(error_lower, <<"config", "setup", "install", "uninstall", "not configured", "missing connector">>)
       THEN "Configuration/Setup"
       ELSE IF AnyIn(error_lower, <<"failed to load file", "bundle", "file size", "suitebundles">>)
       THEN "File/Bundle Error"
       ELSE "Other"

-----------------------------------------------------------------------------
(* The tickets the three programs classify                                 *)

MaxSummaryWords == 1

MaxErrorWords == 2

ClsWords == {"Token", "sync", "error", "setup", "how", "why", "guide", "feature",
             "report", "holiday", "timeout", "hello"}

CaseTypes == {"Bug", "Query", "Documentation", "Product Enhancement", "Task", NaN}

ResolutionComments == {NaN, "", "nan", "Customer advised", "customer", "restarted",
                       "temporary workaround", "escalated to dev team", "Deployed",
                       "no action", "Fixed by restart. Verified", "Issue: token expired"}

ErrorWords == {"hook error", "search", "webhook", "401", "timeout", "required",
               "setup", "bundle", "unknown", "Token"}

ErrorTexts == {NaN, "N/A", "Not specified"} \cup Phrases(ErrorWords, {" "}, MaxErrorWords)

Ticket(case_type, summary, description, resolution_comments, error_text) ==
    [case_type |-> case_type, summary |-> summary, description |-> description,
     resolution_comments |-> resolution_comments, error_text |-> error_text]

CombinedTickets ==
    {Ticket(t, s, d, NaN, NaN) :
        t \in CaseTypes, s \in Phrases(ClsWords, {" "}, MaxSummaryWords),
        d \in {NaN} \cup ClsWords}

HolidayTickets ==
    {Ticket(NaN, s, d, c, NaN) :
        s \in Phrases(ClsWords, {" "}, MaxSummaryWords), d \in {NaN, "network"},
        c \in ResolutionComments}

DeepDiveTickets == {Ticket(NaN, NaN, NaN, NaN, e) : e \in ErrorTexts}

InitClassify ==
    /\ OthersIdle("cls")
    /\ cls_program \in {"combined", "holiday", "deep_dive"}
    /\ cls_ticket \in CASE cls_program = "combined" -> CombinedTickets
                        [] cls_program = "holiday" -> HolidayTickets
                        [] cls_program = "deep_dive" -> DeepDiveTickets
    /\ pattern = NaN
    /\ root_cause = NaN
    /\ determined_method = NaN
    /\ error_category = NaN
    /\ resolution_method = NaN
    /\ cls_pc = "start"

\* analyze_combined_report: the pattern of one row, by its case type
CategorizeTicket ==
    /\ cls_pc = "start" /\ cls_program = "combined"
    /\ LET summary == cls_ticket.summary
           description == IF notna(cls_ticket.description) THEN cls_ticket.description ELSE ""
           case_type == IF notna(cls_ticket.case_type) THEN cls_ticket.case_type ELSE "Unknown"
       IN pattern' =
              IF Lower(case_type) = "bug" THEN categorize_bug_pattern(summary, description)
              ELSE IF Lower(case_type) = "query"
              THEN categorize_query_pattern(summary, description)
              ELSE IF Lower(case_type) \in {"documentation", "product enhancement"}
              THEN categorize_doc_enhancement_pattern(summary, description)
              ELSE "Other"
    /\ cls_pc' = "done"
    /\ UNCHANGED <<cls_program, cls_ticket, root_cause, determined_method, error_category,
                   resolution_method, not_cls>>

\* f"{summary} {description} {resolution_comments}".lower()
combined_text(ticket) ==
    Lower(Str(ticket.summary) \o " " \o Str(ticket.description) \o " "
          \o Str(ticket.resolution_comments))

Blanks == {" ", "\n", "\t"}

\* where the whitespace run that starts at a ends: the first place from a on
\* that holds no character of seps
RunEnd(s, a, seps) ==
    LET stops == {j \in a..Len(s) : CharAt(s, j) \notin seps}
    IN IF stops = {} THEN Len(s) + 1 ELSE CHOOSE j \in stops : \A k \in stops : j <= k

\* seps{min,} followed by the group ([^\.]+ at a: where the group starts, 0
\* when there is no match.  The run is taken whole; when a '.' or the end of
\* the text follows it, its last character is given to the group
GroupStart(s, a, seps, min) ==
    LET b == RunEnd(s, a, seps)
    IN IF b - a < min THEN 0
       ELSE IF b <= Len(s) /\ CharAt(s, b) # "." THEN b
       ELSE IF b - a >= 1 /\ b - a - 1 >= min /\ CharAt(s, b - 1) # "." THEN b - 1
       ELSE 0

\* where [^\.]+ from g ends
ToDot(s, g) ==
    LET dots == {j \in g..Len(s) : CharAt(s, j) = "."}
    IN IF dots = {} THEN Len(s) ELSE (CHOOSE j \in dots : \A k \in dots : j <= k) - 1

\* where [^\.]+(?:\.[^\.]+)* from g ends: before the first '.' that another
\* '.' or the end of the text follows
ToLastDot(s, g) ==
    LET dots == {j \in g..Len(s) : /\ CharAt(s, j) = "."
                                  /\ (j = Len(s) \/ CharAt(s, j + 1) = ".")}
    IN IF dots = {} THEN Len(s) ELSE (CHOOSE j \in dots : \A k \in dots : j <= k) - 1

\* the places where one of the words occurs, ignoring case: <<start, end + 1>>
LiteralEnds(s, words) ==
    UNION {{<<i, i + Len(w)>> :
               i \in {j \in 1..(Len(s) - Len(w) + 1) : SubSeq(Lower(s), j, j + Len(w) - 1) = w}} :
           w \in words}

\* ... followed by \s+ and the word
ChainEnds(s, ends, word) ==
    {<<e[1], RunEnd(s, e[2], Blanks) + Len(word)>> : e \in
        {e \in ends : LET b == RunEnd(s, e[2], Blanks)
                      IN /\ b > e[2]
                         /\ b + Len(word) - 1 <= Len(s)
                         /\ SubSeq(Lower(s), b, b + Len(word) - 1) = word}}

\* group 1 of re.search: the leftmost place of ends after which the
\* separators and the group match; whole tells which of the two groups
FirstGroup(s, ends, seps, min, whole) ==
    LET ok == {e \in ends : GroupStart(s, e[2], seps, min) # 0}
    IN IF ok = {} THEN [found |-> FALSE, group |-> ""]
       ELSE LET e == CHOOSE x \in ok : \A y \in ok : x[1] <= y[1]
                g == GroupStart(s, e[2], seps, min)
            IN [found |-> TRUE,
                group |-> SubSeq(s, g, IF whole THEN ToLastDot(s, g) ELSE ToDot(s, g))]

\* re.split(r'[.!?]+', text)
RECURSIVE Sentences(_)
Sentences(s) ==
    LET marks == {j \in 1..Len(s) : CharAt(s, j) \in {".", "!", "?"}}
    IN IF marks = {} THEN <<s>>
       ELSE LET first == CHOOSE j \in marks : \A k \in marks : j <= k
                next == RunEnd(s, first, {".", "!", "?"})
            IN <<SubSeq(s, 1, first - 1)>> \o Sentences(SubSeq(s, next, Len(s)))

\* whether the issue patterns of extract_issue_and_fix_from_comments leave a
\* non-empty issue
IssueExtracted(text) ==
    LET lower == Lower(text)
        problem == FirstGroup(text, LiteralEnds(text, {"issue:", "problem:"}), Blanks, 0, TRUE)
        reported == {"customer reported", "customer was", "customer had"}
    IN IF problem.found THEN Strip(problem.group) # ""
       ELSE IF \E w \in reported : Contains(lower, w)
       THEN LET m == FirstGroup(text, LiteralEnds(text, reported), Blanks, 1, FALSE)
            IN m.found /\ Strip(m.group) # ""
       ELSE IF Contains(lower, "error")
       THEN FirstGroup(text, LiteralEnds(text, {"error"}), Blanks \cup {":"}, 1, FALSE).found
       ELSE \E w \in {"not working", "failed", "failing", "not able"} : Contains(lower, w)

\* the fix the six fix patterns give, "" for none
PatternFix(text) ==
    LET lower == Lower(text)
        by == FirstGroup(text, ChainEnds(text, LiteralEnds(text, {"fixed", "resolved"}), "by"),
                         Blanks, 1, TRUE)
        changes == {"changed", "updated", "modified", "configured", "reconfigured"}
        advised == {"customer advised", "customer informed", "customer told", "customer guided"}
    IN IF by.found THEN Strip(by.group)
       ELSE IF Contains(lower, "solution:")
       THEN Strip(FirstGroup(text, LiteralEnds(text, {"solution:"}), Blanks, 0, TRUE).group)
       ELSE IF Contains(lower, "action taken:")
       THEN Strip(FirstGroup(text, LiteralEnds(text, {"action taken:"}), Blanks, 0, TRUE).group)
       ELSE IF \E w \in changes : Contains(lower, w)
       THEN LET m == FirstGroup(text, LiteralEnds(text, changes), Blanks, 1, FALSE)
            IN IF m.found THEN "Changed: " \o Strip(m.group) ELSE ""
       ELSE IF \E w \in advised : Contains(lower, w)
       THEN LET m == FirstGroup(text, ChainEnds(text, LiteralEnds(text, advised), "to"),
                                Blanks, 1, FALSE)
            IN IF m.found THEN "Customer advised: " \o Strip(m.group) ELSE ""
       ELSE IF \E w \in {"workaround", "temporary fix", "interim"} : Contains(lower, w)
       THEN "Workaround applied (see resolution comments for details)"
       ELSE ""

\* the fix of extract_issue_and_fix_from_comments: None ("") for no comments;
\* the text of a fix pattern; else the second and third sentence.  The list
\* of sentences is bound only when no issue was found: with an issue and
\* without a fix the function raises UnboundLocalError
extract_fix_from_comments(resolution_comments) ==
    IF resolution_comments = NaN \/ Strip(resolution_comments) \in {"", "nan"}
    THEN [raised |-> FALSE, fix |-> ""]
    ELSE LET fix == PatternFix(resolution_comments)
             sentences == Sentences(resolution_comments)
             fix_parts == SelectSeq([k \in 1..(IF Len(sentences) > 3 THEN 2 ELSE Len(sentences) - 1)
                                        |-> Strip(sentences[k + 1])],
                                    LAMBDA p : p # "")
         IN IF fix # "" THEN [raised |-> FALSE, fix |-> fix]
            ELSE IF IssueExtracted(resolution_comments) THEN [raised |-> TRUE, fix |-> ""]
            ELSE [raised |-> FALSE, fix |-> Join(fix_parts, ". ")]

\* analyze_case_resolution: the root cause, what determine_resolution_method
\* gives the comments, and the resolution method returned, which is the fix
\* extracted from the comments when there is one
AnalyzeCaseResolution ==
    /\ cls_pc = "start" /\ cls_program = "holiday"
    /\ determined_method' = determine_resolution_method(cls_ticket.resolution_comments)
    /\ root_cause' = determine_root_cause(combined_text(cls_ticket),
                                          cls_ticket.resolution_comments)
    /\ LET extracted == extract_fix_from_comments(cls_ticket.resolution_comments)
       IN IF extracted.raised
          THEN cls_pc' = "UnboundLocalError" /\ UNCHANGED resolution_method
          ELSE /\ cls_pc' = "done"
               /\ resolution_method' = IF extracted.fix # "" THEN extracted.fix
                                        ELSE determined_method'
    /\ UNCHANGED <<cls_program, cls_ticket, pattern, error_category, not_cls>>

\* category = categorize_error(error)
CategorizeError ==
    /\ cls_pc = "start" /\ cls_program = "deep_dive"
    /\ error_category' = categorize_error(cls_ticket.error_text)
    /\ cls_pc' = "done"
    /\ UNCHANGED <<cls_program, cls_ticket, pattern, root_cause, determined_method,
                   resolution_method, not_cls>>

NextClassify == CategorizeTicket \/ AnalyzeCaseResolution \/ CategorizeError

SpecClassify == InitClassify /\ [][NextClassify]_vars

-----------------------------------------------------------------------------
(* Properties of the keyword ladders                                       *)

\* the ladders as rule tables: the keywords and the label of each rule, in the
\* order of the source
BugRules == <<
    <<<<"auth", "token", "credential", "unauthorized">>, "Authentication">>,
    <<<<"mapping", "field", "sync">>, "Data Mapping/Sync">>,
    <<<<"error", "exception", "failed">>, "Code Error">>,
    <<<<"config", "setup", "configuration">>, "Configuration">> >>

QueryRules == <<
    <<<<"how", "documentation", "guide">>, "How-To Question">>,
    <<<<"why", "explain", "reason">>, "Why Question">>,
    <<<<"setup", "configure", "install">>, "Configuration Question">> >>

DocEnhancementRules == <<
    <<<<"documentation", "doc", "guide", "tutorial">>, "Documentation Update">>,
    <<<<"feature", "enhancement", "improve">>, "Feature Enhancement">>,
    <<<<"compliance", "audit", "report">>, "Compliance/Reporting">> >>

RootCauseRules == <<
    <<<<"holiday", "peak", "high volume", "increased load", "seasonal">>, "Holiday Season Volume">>,
    <<<<"configuration", "setup", "config", "not configured", "misconfigured">>, "Configuration Error">>,
    <<<<"api", "rate limit", "quota", "endpoint", "request failed">>, "API Limitations">>,
    <<<<"authentication", "auth", "token", "credential", "unauthorized", "401", "403">>, "Authentication Failure">>,
    <<<<"mapping", "field", "invalid field", "missing field", "field mapping">>, "Data Mapping Issue">>,
    <<<<"sync", "synchronization", "not syncing", "sync error", "sync failed">>, "Data Synchronization Problem">>,
    <<<<"performance", "slow", "timeout", "delay", "lag", "bottleneck">>, "Performance Issue">>,
    <<<<"validation", "invalid", "required", "format", "data format">>, "Data Validation Error">>,
    <<<<"duplicate", "duplication", "duplicated", "already exists">>, "Duplicate Data Issue">>,
    <<<<"connection", "connectivity", "network", "disconnect", "connection failed">>, "Connection Problem">>,
    <<<<"script", "code", "bug", "error", "exception", "crash">>, "Code/Script Error">>,
    <<<<"external", "third party", "vendor", "partner", "system down">>, "External System Issue">> >>

ResolutionMethodRules == <<
    <<<<"fixed", "resolved", "implemented", "deployed", "code fix", "bug fix">>, "Code Fix">>,
    <<<<"workaround", "work-around", "temporary", "interim", "manual">>, "Workaround Applied">>,
    <<<<"customer advised", "customer informed", "customer told", "guided", "instructed">>, "Customer Guidance">>,
    <<<<"configuration", "setup", "reconfigured", "reauthorized", "settings">>, "Configuration Change">>,
    <<<<"escalated", "escalation", "dev team", "engineering", "product team">>, "Escalated to Engineering">>,
    <<<<"data", "record", "deleted", "updated", "corrected">>, "Data Fix">>,
    <<<<"external", "vendor", "partner", "third party">>, "External Resolution">>,
    <<<<"no action", "not needed", "by design", "expected behavior">>, "No Action Required">> >>

ErrorRules == <<
    <<<<"hook error", "hook function", "script error", "nlobjsearch", "customscript", "scriptid">>, "Hook/Script Error">>,
    <<<<"kit definition", "bom", "kit component", "member item">>, "Kit/BOM Issue">>,
    <<<<"storemap", "store map", "missing storemap">>, "Storemap Issue">>,
    <<<<"integration app", "cannot delete a resource that belongs to", "ia deleted", "ia error">>, "Integration App Error">>,
    <<<<"sublist", "invalid sublist", "sublist operation", "line item">>, "Sublist Operation">>,
    <<<<"search", "searchid", "unable to get export searchid", "invalid search">>, "Search/Query Error">>,
    <<<<"webhook", "web hook">>, "Webhook Error">>,
    <<<<"401", "403", "unauthorized", "authentication", "token", "auth", "jwt", "credential", "reauthenticate">>, "Authentication">>,
    <<<<"mapping error", "field error", "missing field", "invalid field", "invalid column">>, "Mapping/Field">>,
    <<<<"failed to create", "failed to update", "failed to save", "failed to add", "cannot create", "unable to create">>, "Record Creation/Update">>,
    <<<<"rate limit", "too many requests", "429", "performance", "slow">>, "Rate Limit/Performance">>,
    <<<<"validation", "invalid value", "invalid format", "required", "must be", "must enter">>, "Data Validation">>,
    <<<<"connection", "network", "502", "503", "504", "unreachable", "timeout", "timed out">>, "Network/Connection">>,
    <<<<"api error", "400", "404", "500", "bad request", "status code">>, "API Error">>,
    <<<<"config", "setup", "install", "uninstall", "not configured", "missing connector">>, "Configuration/Setup">>,
    <<<<"failed to load file", "bundle", "file size", "suitebundles">>, "File/Bundle Error">> >>

\* the rules determine_root_cause applies to the resolution comments after its
\* keyword rules: the words that must all occur, the words of which one must
\* occur, and the label
CommentRules == <<
    << <<"customer">>, <<"advised", "informed">>, "Customer Education Needed" >>,
    << <<>>, <<"workaround", "temporary">>, "Requires Workaround" >>,
    << <<>>, <<"escalated", "dev team">>, "Engineering Issue" >> >>

\* the first rule of a table with a keyword in the text, 0 when there is none
EarliestRule(rules, text) ==
    LET hits == {n \in 1..Len(rules) : AnyIn(text, rules[n][1])}
    IN IF hits = {} THEN 0 ELSE CHOOSE n \in hits : \A m \in hits : n <= m

CommentRuleHolds(n, comments) ==
    /\ notna(comments)
    /\ \A i \in 1..Len(CommentRules[n][1]) : Contains(Lower(Str(comments)), CommentRules[n][1][i])
    /\ AnyIn(Lower(Str(comments)), CommentRules[n][2])

EarliestCommentRule(comments) ==
    LET hits == {n \in 1..Len(CommentRules) : CommentRuleHolds(n, comments)}
    IN IF hits = {} THEN 0 ELSE CHOOSE n \in hits : \A m \in hits : n <= m

\* a keyword of a comment rule occurs in the comments
CommentKeyword(comments) ==
    /\ notna(comments)
    /\ \E n \in 1..Len(CommentRules) :
          AnyIn(Lower(Str(comments)), CommentRules[n][1] \o CommentRules[n][2])

\* the table analyze_combined_report uses for a case type, <<>> when it uses none
PatternRules(case_type) ==
    LET kind == Lower(IF notna(case_type) THEN case_type ELSE "Unknown")
    IN IF kind = "bug" THEN BugRules
       ELSE IF kind = "query" THEN QueryRules
       ELSE IF kind \in {"documentation", "product enhancement"} THEN DocEnhancementRules
       ELSE <<>>

PatternDefault(case_type) ==
    IF PatternRules(case_type) = QueryRules THEN "General Query" ELSE "Other"

\* the text the pattern ladders read
PatternText(ticket) ==
    Lower(Str(ticket.summary) \o " "
          \o (IF notna(ticket.description) THEN ticket.description ELSE ""))

\* C7: every ladder returns the label of the earliest rule of its table, in
\* table order, that has a keyword in the text.
C7_EarliestRuleWins ==
    cls_pc = "done" =>
        /\ cls_program = "combined" =>
              LET rules == PatternRules(cls_ticket.case_type)
                  n == EarliestRule(rules, PatternText(cls_ticket))
              IN n # 0 => pattern = rules[n][2]
        /\ cls_program = "holiday" =>
              LET n == EarliestRule(RootCauseRules, combined_text(cls_ticket))
                  c == EarliestCommentRule(cls_ticket.resolution_comments)
                  k == EarliestRule(ResolutionMethodRules,
                                    Lower(Str(cls_ticket.resolution_comments)))
              IN /\ n # 0 => root_cause = RootCauseRules[n][2]
                 /\ (n = 0 /\ c # 0) => root_cause = CommentRules[c][3]
                 /\ k # 0 => determined_method = ResolutionMethodRules[k][2]
        /\ cls_program = "deep_dive" =>
              LET n == EarliestRule(ErrorRules, Lower(Str(cls_ticket.error_text)))
              IN n # 0 => error_category = ErrorRules[n][2]

\* a bug whose text has keywords of the first and the third rule and the first
\* rule's label
C7_Witness ==
    /\ cls_pc = "done" /\ cls_program = "combined"
    /\ PatternRules(cls_ticket.case_type) = BugRules
    /\ AnyIn(PatternText(cls_ticket), BugRules[1][1])
    /\ AnyIn(PatternText(cls_ticket), BugRules[3][1])
    /\ pattern = "Authentication"

\* no rule of a table has a keyword in the text the table's ladder reads
NoPatternKeyword ==
    EarliestRule(PatternRules(cls_ticket.case_type), PatternText(cls_ticket)) = 0

NoRootCauseKeyword ==
    /\ EarliestRule(RootCauseRules, combined_text(cls_ticket)) = 0
    /\ ~CommentKeyword(cls_ticket.resolution_comments)

NoMethodKeyword ==
    EarliestRule(ResolutionMethodRules, Lower(Str(cls_ticket.resolution_comments))) = 0

NoErrorKeyword == EarliestRule(ErrorRules, Lower(Str(cls_ticket.error_text))) = 0

\* the comments determine_resolution_method takes for no comments
BlankComments(comments) == comments = NaN \/ Strip(Str(comments)) \in {"", "nan"}

\* the error texts categorize_error takes for no error
NoErrorText(error_text) == error_text = NaN \/ Str(error_text) \in {"N/A", "Not specified"}

-----------------------------------------------------------------------------
(* deep_dive_detailed_analysis.py: deep_dive_analysis                      *)

\* the ASCII characters of names and keys in code order, by which strings are
\* compared
Ascii == " &()+,-./0123456789:ABCDEFGHIJKLMNOPQRSTUVWXYZ_abcdefghijklmnopqrstuvwxyz"

AsciiRank == [c \in {CharAt(Ascii, i) : i \in 1..Len(Ascii)} |-> IndexIn(Ascii, c)]

\* a character outside ASCII comes after every ASCII character
Rank(c) == IF c \in DOMAIN AsciiRank THEN AsciiRank[c] ELSE Len(Ascii) + 1

\* a < b for two strings
StrLess(a, b) ==
    LET n == IF Len(a) < Len(b) THEN Len(a) ELSE Len(b)
        diffs == {i \in 1..n : CharAt(a, i) # CharAt(b, i)}
    IN IF diffs = {} THEN Len(a) < Len(b)
       ELSE LET i == CHOOSE d \in diffs : \A e \in diffs : d <= e
            IN Rank(CharAt(a, i)) < Rank(CharAt(b, i))

\* the number of rows of a frame that satisfy a condition
Count(rows, P(_)) == Cardinality({i \in 1..Len(rows) : P(rows[i])})

\* the sum of a list of numbers
RECURSIVE Sum(_)
Sum(ns) == IF Len(ns) = 0 THEN 0 ELSE Head(ns) + Sum(Tail(ns))

\* status.lower() not in ['closed', 'resolved']
IsOpen(status) == Lower(status) \notin {"closed", "resolved"}

\* the value of a cell, or the default of a missing one
ValueOr(v, default) == IF notna(v) THEN v ELSE default

\* the row of detailed_data for a ticket; the columns filled from the text
\* extractors other than 'Flow Count' are left out
DetailedRow(row) ==
    [case_key |-> row.case_key,
     case_type |-> ValueOr(row.case_type, "Unknown"),
     integration |-> ValueOr(row.integration, "N/A"),
     priority |-> ValueOr(row.priority, "P3"),
     status |-> row.status,
     flow_count |-> Len(row.flows)]

\* integration_flows[integration][flow].append(case_key).  The nested dict is
\* held as the list of its entries in the order the dicts yield them: by
\* integration in order of first insertion, then by flow in order of insertion
AddFlowCase(index, integration, flow, case_key) ==
    LET same == {i \in 1..Len(index) :
                    index[i].integration = integration /\ index[i].flow = flow}
        of_integration == {i \in 1..Len(index) : index[i].integration = integration}
        entry == [integration |-> integration, flow |-> flow, case_keys |-> <<case_key>>]
    IN IF same # {}
       THEN [i \in 1..Len(index) |->
                IF i \in same THEN [index[i] EXCEPT !.case_keys = Append(@, case_key)]
                ELSE index[i]]
       ELSE IF of_integration = {} THEN Append(index, entry)
       ELSE LET last == CHOOSE i \in of_integration : \A j \in of_integration : j <= i
            IN SubSeq(index, 1, last) \o <<entry>> \o SubSeq(index, last + 1, Len(index))

\* for flow in flows: integration_flows[integration][flow].append(case_key)
RECURSIVE AddFlowCases(_, _, _, _)
AddFlowCases(index, integration, flows, case_key) ==
    IF Len(flows) = 0 THEN index
    ELSE AddFlowCases(AddFlowCase(index, integration, Head(flows), case_key),
                      integration, Tail(flows), case_key)

\* one turn of: for idx, row in df.iterrows()
ProcessRow ==
    /\ dd_pc = "rows"
    /\ dd_k <= Len(dd_df)
    /\ LET row == dd_df[dd_k]
           integration == ValueOr(row.integration, "N/A")
       IN /\ detailed_data' = Append(detailed_data, DetailedRow(row))
          /\ integration_flows' =
                 IF integration # "N/A"
                 THEN AddFlowCases(integration_flows, integration, row.flows, row.case_key)
                 ELSE integration_flows
    /\ dd_k' = dd_k + 1
    /\ UNCHANGED <<dd_df, flows_df, frequent_flows, integration_counts, dd_pc, not_dd>>

\* the direction read from a flow name
Direction(flow) ==
    LET flow_lower == Lower(flow)
    IN IF Contains(flow_lower, "to")
       THEN IF Contains(flow_lower, "netsuite")
               /\ Find(flow_lower, "netsuite") > Find(flow_lower, "to")
            THEN "Import to NetSuite"
            ELSE IF Contains(flow_lower, "netsuite")
                    /\ Find(flow_lower, "netsuite") < Find(flow_lower, "to")
            THEN "Export from NetSuite"
            ELSE "Sync"
       ELSE IF Contains(flow_lower, "import") THEN "Import"
       ELSE IF Contains(flow_lower, "export") THEN "Export"
       ELSE IF Contains(flow_lower, "sync") THEN "Sync"
       ELSE "Unspecified"

\* the record type read from a flow name
RecordType(flow) ==
    LET flow_lower == Lower(flow)
    IN IF Contains(flow_lower, "sales order") \/ Contains(flow_lower, "order")
       THEN "Sales Order"
       ELSE IF Contains(flow_lower, "cash sale") THEN "Cash Sale"
       ELSE IF Contains(flow_lower, "fulfillment") \/ Contains(flow_lower, "item fulfillment")
       THEN "Item Fulfillment"
       ELSE IF Contains(flow_lower, "refund") \/ Contains(flow_lower, "credit memo")
       THEN "Refund/Credit"
       ELSE IF Contains(flow_lower, "settlement") THEN "Settlement"
       ELSE IF Contains(flow_lower, "shipment") THEN "Shipment"
       ELSE IF Contains(flow_lower, "customer") THEN "Customer"
       ELSE IF Contains(flow_lower, "product") \/ Contains(flow_lower, "item")
               \/ Contains(flow_lower, "inventory")
       THEN "Product/Item"
       ELSE IF Contains(flow_lower, "payment") THEN "Payment"
       ELSE IF Contains(flow_lower, "invoice") THEN "Invoice"
       ELSE "N/A"

AffectedCasesLimit == 10

\* the row of flow_analysis for one flow of one integration; the columns
\* 'Common Error' and 'PRE/PRD Refs', copied from the text extractors' columns,
\* are left out
FlowRow(entry, cases) ==
    LET case_keys == entry.case_keys
        flow_cases == SelectSeq(cases, LAMBDA c : c.case_key \in Range(case_keys))
        p1_count == Count(flow_cases, LAMBDA c : c.priority = "P1")
        p2_count == Count(flow_cases, LAMBDA c : c.priority = "P2")
    IN [integration |-> entry.integration,
        flow_name |-> entry.flow,
        direction |-> Direction(entry.flow),
        record_type |-> RecordType(entry.flow),
        issue_count |-> Len(case_keys),
        open |-> Count(flow_cases, LAMBDA c : IsOpen(c.status)),
        closed |-> Count(flow_cases, LAMBDA c : ~IsOpen(c.status)),
        p1 |-> p1_count,
        p2 |-> p2_count,
        affected_cases |-> Join(TakeFirst(case_keys, AffectedCasesLimit), ", "),
        priority |-> IF p1_count > 0 THEN "Critical"
                     ELSE IF Len(case_keys) > 5 THEN "High" ELSE "Medium"]

\* the order of sort_values(['Integration', 'Issue Count'], ascending=[True, False])
FlowBefore(r1, r2) ==
    \/ StrLess(r1.integration, r2.integration)
    \/ r1.integration = r2.integration /\ r1.issue_count > r2.issue_count

\* a row put into a sorted frame behind the rows it does not come before
InsertFlow(sorted, r) ==
    LET n == Cardinality({i \in 1..Len(sorted) : ~FlowBefore(r, sorted[i])})
    IN SubSeq(sorted, 1, n) \o <<r>> \o SubSeq(sorted, n + 1, Len(sorted))

\* the frame sorted, rows of equal keys left in their order
RECURSIVE SortFlows(_)
SortFlows(rows) ==
    IF Len(rows) = 0 THEN <<>>
    ELSE InsertFlow(SortFlows(SubSeq(rows, 1, Len(rows) - 1)), rows[Len(rows)])

\* flows_df = pd.DataFrame(flow_analysis).sort_values(...); a frame made of no
\* rows has no columns, and sort_values raises KeyError
BuildFlowAnalysis ==
    /\ dd_pc = "rows"
    /\ dd_k > Len(dd_df)
    /\ LET flow_analysis == [i \in 1..Len(integration_flows) |->
                                FlowRow(integration_flows[i], detailed_data)]
       IN IF Len(flow_analysis) = 0
          THEN dd_pc' = "KeyError" /\ flows_df' = flows_df
          ELSE dd_pc' = "merge" /\ flows_df' = SortFlows(flow_analysis)
    /\ UNCHANGED <<dd_df, dd_k, detailed_data, integration_flows, frequent_flows,
                   integration_counts, not_dd>>

\* is_meaningful_data(text)
is_meaningful_data(text) ==
    IF text = "" \/ text = "N/A" \/ text = NaN THEN FALSE
    ELSE LET text_lower == Lower(Str(text))
         IN IF AnyIn(text_lower, <<"accountid", "yes/no", "link to video", "file name",
                                   "slack", "h2.io", "mailto:", "@celigo.com">>)
            THEN FALSE
            ELSE AnyIn(text_lower, <<"order", "sales", "import", "export", "sync",
                                     "fulfillment", "settlement", "shipment", "refund",
                                     "payment", "invoice", "customer", "product", "item",
                                     "inventory", "cash sale", "field", "credit memo",
                                     "journal", "mapping", "record", "data">>)

\* s.split(sep)
RECURSIVE SplitBy(_, _)
SplitBy(s, sep) ==
    LET i == Find(s, sep)
    IN IF i = 0 THEN <<s>>
       ELSE <<SubSeq(s, 1, i - 1)>> \o SplitBy(SubSeq(s, i + Len(sep), Len(s)), sep)

MergedCasesLimit == 10

\* the sets list(S)[:n] may list: S itself, or any n of its elements
Kept(S, n) == IF Cardinality(S) <= n THEN {S} ELSE {T \in SUBSET S : Cardinality(T) = n}

\* all_cases: every 'Affected Cases' cell of the group split, one after another
RECURSIVE AllCases(_)
AllCases(group) ==
    IF Len(group) = 0 THEN <<>>
    ELSE SplitBy(Head(group).affected_cases, ", ") \o AllCases(Tail(group))

\* a list without its order: each entry with the number of times it is listed
Listed(keys, times(_)) == [k \in keys |-> times(k)]

UniqueCases_Repeated(all_cases) ==
    {Listed(Range(all_cases),
            LAMBDA k : Cardinality({i \in 1..Len(all_cases) : all_cases[i] = k}))}

\* the lists list(set(all_cases))[:10] may be, their order left out: the order
\* in which a set of strings is listed differs from run to run
UniqueCases(all_cases) ==
    {Listed(T, LAMBDA k : 1) : T \in Kept(Range(all_cases), MergedCasesLimit)}

\* the rows merge_similar_flows may make of one group.  The representative
\* name is the first of value_counts(), in which every name of the group
\* counts once
MergedRows(group) ==
    LET issue_count == Sum([i \in 1..Len(group) |-> group[i].issue_count])
        p1 == Sum([i \in 1..Len(group) |-> group[i].p1])
    IN {[integration |-> group[1].integration,
         flow_name |-> representative_name,
         direction |-> group[1].direction,
         record_type |-> group[1].record_type,
         issue_count |-> issue_count,
         open |-> Sum([i \in 1..Len(group) |-> group[i].open]),
         closed |-> Sum([i \in 1..Len(group) |-> group[i].closed]),
         p1 |-> p1,
         p2 |-> Sum([i \in 1..Len(group) |-> group[i].p2]),
         affected_cases |-> unique_cases,
         priority |-> IF p1 > 0 THEN "Critical"
                      ELSE IF issue_count > 5 THEN "High" ELSE "Medium",
         merged_count |-> Len(group)] :
            representative_name \in {group[i].flow_name : i \in 1..Len(group)},
            unique_cases \in UniqueCases(AllCases(group))}

\* the keys of flows_df.groupby(['Integration', 'Normalized'])
GroupKey(r) == <<r.integration, normalize_flow_name(r.flow_name)>>

GroupKeyBefore(k1, k2) == StrLess(k1[1], k2[1]) \/ (k1[1] = k2[1] /\ StrLess(k1[2], k2[2]))

\* the groups in the order groupby yields them, those of an empty normalized
\* name skipped
Groups(rows) ==
    LET keys == {GroupKey(rows[i]) : i \in 1..Len(rows)} \ {k \in {GroupKey(rows[i]) : i \in 1..Len(rows)} : k[2] = ""}
        nth(n) == CHOOSE k \in keys : Cardinality({j \in keys : GroupKeyBefore(j, k)}) = n - 1
    IN [n \in 1..Cardinality(keys) |->
           SelectSeq(rows, LAMBDA r : GroupKey(r) = nth(n))]

\* the frames the loop over the groups may build, from group i on
RECURSIVE MergedFrom(_, _)
MergedFrom(groups, i) ==
    IF i > Len(groups) THEN {<<>>}
    ELSE {<<row>> \o rest : row \in MergedRows(groups[i]), rest \in MergedFrom(groups, i + 1)}

\* the frames merge_similar_flows(flows) may return; {} when it raises KeyError
\* on sorting a frame made of no rows
merge_similar_flows(flows) ==
    IF Len(flows) = 0 THEN {flows}
    ELSE LET groups == Groups(flows)
         IN IF Len(groups) = 0 THEN {}
            ELSE {SortFlows(merged_flows) : merged_flows \in MergedFrom(groups, 1)}

\* the rows of at least two tickets with a meaningful name, merged
FilterAndMerge ==
    /\ dd_pc = "merge"
    /\ LET clean_flows == SelectSeq(flows_df, LAMBDA r : is_meaningful_data(r.flow_name))
           frequent_flows_raw == SelectSeq(clean_flows, LAMBDA r : r.issue_count >= 2)
           merged == merge_similar_flows(frequent_flows_raw)
       IN IF merged = {}
          THEN dd_pc' = "KeyError" /\ frequent_flows' = frequent_flows
          ELSE dd_pc' = "counts" /\ frequent_flows' \in merged
    /\ UNCHANGED <<dd_df, dd_k, detailed_data, integration_flows, flows_df,
                   integration_counts, not_dd>>

\* the row of integration_counts made of the tickets int_cases
IntegrationRow(integration, int_cases) ==
    [integration |-> integration,
     total_cases |-> Len(int_cases),
     bug |-> Count(int_cases, LAMBDA c : c.case_type = "Bug"),
     query |-> Count(int_cases, LAMBDA c : c.case_type = "Query"),
     documentation |-> Count(int_cases, LAMBDA c : c.case_type = "Documentation"),
     product_enhancement |-> Count(int_cases, LAMBDA c : c.case_type = "Product Enhancement"),
     open |-> Count(int_cases, LAMBDA c : IsOpen(c.status)),
     closed |-> Count(int_cases, LAMBDA c : ~IsOpen(c.status)),
     p1 |-> Count(int_cases, LAMBDA c : c.priority = "P1"),
     p2 |-> Count(int_cases, LAMBDA c : c.priority = "P2"),
     p3 |-> Count(int_cases, LAMBDA c : c.priority = "P3"),
     p4 |-> Count(int_cases, LAMBDA c : c.priority = "P4")]

IntegrationCount_All(integration, cases) == IntegrationRow(integration, cases)

\* int_cases = cases_df[cases_df['Integration'] == integration], counted
IntegrationCount(integration, cases) ==
    IntegrationRow(integration, SelectSeq(cases, LAMBDA c : c.integration = integration))

\* the frames sort_values('Total Cases', ascending=False) may give: rows of
\* equal totals in either order
SortedByTotal(rows) ==
    {o \in Orderings(rows) :
        \A i \in 1..Len(o) - 1 : o[i].total_cases >= o[i + 1].total_cases}

\* the count by integration, over the tickets whose integration is not 'N/A';
\* a frame made of no rows has no column 'Total Cases' to sort by
CountByIntegration ==
    /\ dd_pc = "counts"
    /\ LET integrations == {detailed_data[i].integration : i \in 1..Len(detailed_data)} \ {"N/A"}
           rows == {IntegrationCount(integration, detailed_data) : integration \in integrations}
       IN IF rows = {}
          THEN dd_pc' = "KeyError" /\ integration_counts' = integration_counts
          ELSE dd_pc' = "done" /\ integration_counts' \in SortedByTotal(rows)
    /\ UNCHANGED <<dd_df, dd_k, detailed_data, integration_flows, flows_df,
                   frequent_flows, not_dd>>

MaxFirstVariant == 11
MaxSecondVariant == 1
MaxNetSuite == 4

\* the kinds of ticket of the tables explored: the integration cell, and the
\* flow names extract_flow_names finds in the ticket's text
TicketKinds ==
    <<[integration |-> "Shopify", flows |-> <<"Order Sync">>],
      [integration |-> "Shopify", flows |-> <<"order sync flow">>],
      [integration |-> "NetSuite", flows |-> <<"Order Sync">>],
      [integration |-> NaN, flows |-> <<"Order Sync">>],
      [integration |-> "Shopify", flows |-> <<"Order Sync", "order sync flow">>],
      [integration |-> "NetSuite", flows |-> <<>>]>>

KindCounts ==
    {c \in [1..6 -> 0..MaxFirstVariant] :
        /\ c[2] <= MaxSecondVariant
        /\ c[3] <= MaxNetSuite
        /\ c[4] <= 1 /\ c[5] <= 1 /\ c[6] <= 1}

\* the kind of each ticket of a table with c[k] tickets of kind k
RECURSIVE KindsFrom(_, _)
KindsFrom(c, k) ==
    IF k > 6 THEN <<>> ELSE [j \in 1..c[k] |-> k] \o KindsFrom(c, k + 1)

CaseTypeCells == <<"Bug", "Query", NaN>>
PriorityCells == <<"P1", "P2", NaN, "P4">>
StatusCells == <<"Open", "Closed", "resolved", "Done", "In Progress">>

DeepDiveTable(c) ==
    LET kinds == KindsFrom(c, 1)
    IN [i \in 1..Len(kinds) |->
           [case_key |-> "CS-" \o ToString(i),
            case_type |-> CaseTypeCells[(i % 3) + 1],
            integration |-> TicketKinds[kinds[i]].integration,
            priority |-> PriorityCells[((i + 2) % 4) + 1],
            status |-> StatusCells[(i % 5) + 1],
            flows |-> TicketKinds[kinds[i]].flows]]

InitDeepDive ==
    /\ dd_df \in {DeepDiveTable(c) : c \in KindCounts}
    /\ dd_k = 1
    /\ detailed_data = <<>>
    /\ integration_flows = <<>>
    /\ flows_df = <<>>
    /\ frequent_flows = <<>>
    /\ integration_counts = <<>>
    /\ dd_pc = "rows"
    /\ OthersIdle("dd")

NextDeepDive == ProcessRow \/ BuildFlowAnalysis \/ FilterAndMerge \/ CountByIntegration

SpecDeepDive == InitDeepDive /\ [][NextDeepDive]_vars

\* ---- properties of the deep dive ----

Merged == dd_pc \in {"counts", "done"}

\* the flows of integration_flows merged into the row m: same integration,
\* same normalized name, a meaningful name and at least two tickets
Variants(m) ==
    LET norm_name == normalize_flow_name(m.flow_name)
    IN {i \in 1..Len(integration_flows) :
           /\ integration_flows[i].integration = m.integration
           /\ Len(integration_flows[i].case_keys) >= 2
           /\ is_meaningful_data(integration_flows[i].flow)
           /\ normalize_flow_name(integration_flows[i].flow) = norm_name}

\* the keys of the tickets of the variants
VariantKeys(vs) == UNION {Range(integration_flows[i].case_keys) : i \in vs}

\* the keys the variants' rows list: the first ten of each
VariantListed(vs) ==
    UNION {Range(TakeFirst(integration_flows[i].case_keys, AffectedCasesLimit)) : i \in vs}

Min(a, b) == IF a < b THEN a ELSE b

\* C4: after merge_similar_flows the keys listed for a merged group are
\* exactly the keys of the tickets of all its variants, each listed once.
C4_MergedKeysAreUnion ==
    Merged =>
        \A n \in 1..Len(frequent_flows) :
            LET m == frequent_flows[n]
            IN /\ DOMAIN m.affected_cases = VariantKeys(Variants(m))
               /\ \A k \in DOMAIN m.affected_cases : m.affected_cases[k] = 1

\* C4, as the code has it: a merged group lists each key once, lists only keys
\* of tickets of its variants, and lists ten of the keys its variants' rows
\* list (each the first ten of its tickets) when these are more than ten, and
\* all of them otherwise; so it lists exactly the tickets of its variants when
\* these are ten or fewer.
C4_MergedKeysAreCappedUnion ==
    Merged =>
        \A n \in 1..Len(frequent_flows) :
            LET m == frequent_flows[n]
                vs == Variants(m)
                listed == DOMAIN m.affected_cases
            IN /\ \A k \in listed : m.affected_cases[k] = 1
               /\ listed \subseteq VariantListed(vs)
               /\ VariantListed(vs) \subseteq VariantKeys(vs)
               /\ Cardinality(listed) = Min(MergedCasesLimit, Cardinality(VariantListed(vs)))
               /\ Cardinality(VariantKeys(vs)) <= MergedCasesLimit
                      => listed = VariantKeys(vs)
               /\ m.merged_count = Cardinality(vs)

\* two variants merged, a ticket in both, and more than ten keys between them
C4_Witness ==
    /\ Merged
    /\ \E n \in 1..Len(frequent_flows) :
          LET m == frequent_flows[n]
              vs == Variants(m)
          IN /\ Cardinality(vs) = 2
             /\ m.merged_count = 2
             /\ \E i, j \in vs :
                   /\ i # j
                   /\ Range(integration_flows[i].case_keys)
                         \cap Range(integration_flows[j].case_keys) # {}
             /\ Cardinality(VariantKeys(vs)) > MergedCasesLimit
             /\ Cardinality(DOMAIN m.affected_cases) = MergedCasesLimit

Counted == dd_pc = "done"

TotalCases == Sum([n \in 1..Len(integration_counts) |-> integration_counts[n].total_cases])

\* C10: in the count by integration the counts sum to the number of tickets
\* of the table, whatever the table.
C10_CountsSumToTotal == Counted => TotalCases = Len(dd_df)

\* C10, as the code has it: the count by integration has one row for each
\* integration named in the table, its count is the number of tickets that
\* name it, and the counts sum to the number of tickets that have an
\* integration: a ticket without one is counted in no row.
C10_CountsSumToTicketsWithIntegration ==
    Counted =>
        LET named == {i \in 1..Len(dd_df) : notna(dd_df[i].integration)}
        IN /\ TotalCases = Cardinality(named)
           /\ {integration_counts[n].integration : n \in 1..Len(integration_counts)}
                  = {dd_df[i].integration : i \in named}
           /\ \A n \in 1..Len(integration_counts) :
                 /\ integration_counts[n].total_cases =
                        Cardinality({i \in named :
                            dd_df[i].integration = integration_counts[n].integration})
                 /\ \A o \in 1..Len(integration_counts) :
                        integration_counts[o].integration = integration_counts[n].integration
                            => o = n

\* six Shopify tickets and four NetSuite tickets counted as 6 and 4
C10_Witness ==
    /\ Counted
    /\ Len(dd_df) = 10
    /\ Cardinality({i \in 1..Len(dd_df) : dd_df[i].integration = "Shopify"}) = 6
    /\ Cardinality({i \in 1..Len(dd_df) : dd_df[i].integration = "NetSuite"}) = 4
    /\ Len(integration_counts) = 2
    /\ integration_counts[1].integration = "Shopify"
    /\ integration_counts[1].total_cases = 6
    /\ integration_counts[2].integration = "NetSuite"
    /\ integration_counts[2].total_cases = 4
    /\ TotalCases = 10

-----------------------------------------------------------------------------
(* analyze_combined_report: the column lookup, the row loop and the        *)
(* figures of the summary sheets.  The four free-text digests of a row     *)
(* (business use case, customer impact, how addressed, linked work items)  *)
(* are left out of the rows.                                               *)

open_statuses == {"Open", "On hold", "Waiting for CS/Customer inputs", "In Progress",
                  "Pending Investigation", "Under Investigation"}

\* the columns the row loop reads by a fixed name
CombinedFixedCols == <<"Issue key", "Summary", "Priority", "Status", "Created", "Resolved",
                       "Resolution", "Assignee", "Description">>

\* [col for col in df.columns if 'customer' in col.lower()
\*      and 'custom field' in col.lower() and 'old' not in col.lower()]
company_cols(columns) ==
    SelectSeq(columns, LAMBDA col : /\ Contains(Lower(col), "customer")
                                    /\ Contains(Lower(col), "custom field")
                                    /\ ~Contains(Lower(col), "old"))

\* the lookup of the three custom-field columns; without a case type column
\* the program prints an error and calls sys.exit(1)
IdentifyColumns ==
    /\ cr_pc = "columns"
    /\ cr_pc' = IF Len(CustomFieldCols(cr_columns, "case type")) = 0 THEN "exit" ELSE "rows"
    /\ UNCHANGED <<cr_columns, cr_df, cr_k, cases_data, cr_report, not_cr>>

\* the pattern of a row, by its case type
CasePattern(case_type, summary, description) ==
    IF Lower(case_type) = "bug" THEN categorize_bug_pattern(summary, description)
    ELSE IF Lower(case_type) = "query" THEN categorize_query_pattern(summary, description)
    ELSE IF Lower(case_type) \in {"documentation", "product enhancement"}
    THEN categorize_doc_enhancement_pattern(summary, description)
    ELSE "Other"

\* the record appended to cases_data for a row
CaseRow(columns, row) ==
    LET case_type == ValueOr(row[CustomFieldCols(columns, "case type")[1]], "Unknown")
    IN [case_key |-> row["Issue key"],
        case_type |-> case_type,
        summary |-> row["Summary"],
        priority |-> ValueOr(row["Priority"], "P3"),
        status |-> row["Status"],
        created |-> row["Created"],
        resolved |-> ValueOr(row["Resolved"], "N/A"),
        resolution |-> ValueOr(row["Resolution"], "N/A"),
        company |-> FirstColOrNA(row, company_cols(columns)),
        integration |-> FirstColOrNA(row, CustomFieldCols(columns, "integration app")),
        pattern |-> CasePattern(case_type, row["Summary"], ValueOr(row["Description"], "")),
        assignee |-> ValueOr(row["Assignee"], "Unassigned")]

\* a cell of a column that read_csv has read as numbers
Number(text) == "<number " \o text \o ">"

IsNumber(v) == Len(v) > 8 /\ SubSeq(v, 1, 8) = "<number "

\* the text of a cell of the file is a number
IsNumeral(text) ==
    /\ text # NaN
    /\ Len(text) > 0
    /\ \A i \in 1..Len(text) : IsDigit(CharAt(text, i))

\* pd.read_csv: a column whose cells are all numbers or empty, with a number
\* among them, is read as numbers; any other column keeps the text of its cells
read_csv(columns, rows) ==
    LET numeric(c) == /\ \E i \in 1..Len(rows) : IsNumeral(rows[i][c])
                      /\ \A i \in 1..Len(rows) : rows[i][c] = NaN \/ IsNumeral(rows[i][c])
    IN [i \in 1..Len(rows) |->
           [c \in Range(columns) |->
               IF numeric(c) /\ rows[i][c] # NaN THEN Number(rows[i][c]) ELSE rows[i][c]]]

\* one turn of: for idx, row in df.iterrows(); row[col] of a column the table
\* does not have raises KeyError, and case_type.lower() of a case type that is
\* a number raises AttributeError
ProcessCase ==
    /\ cr_pc = "rows"
    /\ cr_k <= Len(cr_df)
    /\ IF \E i \in 1..Len(CombinedFixedCols) : CombinedFixedCols[i] \notin DOMAIN cr_df[cr_k]
       THEN cr_pc' = "KeyError" /\ UNCHANGED <<cr_k, cases_data>>
       ELSE IF IsNumber(cr_df[cr_k][CustomFieldCols(cr_columns, "case type")[1]])
       THEN cr_pc' = "AttributeError" /\ UNCHANGED <<cr_k, cases_data>>
       ELSE /\ cases_data' = Append(cases_data, CaseRow(cr_columns, cr_df[cr_k]))
            /\ cr_k' = cr_k + 1
            /\ cr_pc' = cr_pc
    /\ UNCHANGED <<cr_columns, cr_df, cr_report, not_cr>>

\* the open and closed counts of a selection of cases_df
OpenIn(cases) == Count(cases, LAMBDA c : c.status \in open_statuses)

TopIntegrationsLimit == 20

\* the row of integration_analysis for one integration
IntegrationAnalysisRow(integration, cases) ==
    LET int_cases == SelectSeq(cases, LAMBDA c : c.integration = integration)
        int_open == OpenIn(int_cases)
    IN [integration |-> integration,
        total_cases |-> Len(int_cases),
        open_cases |-> int_open,
        closed_cases |-> Len(int_cases) - int_open]

\* the figures of the overall summary, the case type breakdown and the top
\* integrations; a frame made of no rows has no column 'Priority'
Summarize ==
    /\ cr_pc = "rows"
    /\ cr_k > Len(cr_df)
    /\ IF Len(cases_data) = 0
       THEN cr_pc' = "KeyError" /\ cr_report' = cr_report
       ELSE LET total_cases == Len(cases_data)
                open_count == OpenIn(cases_data)
                bug_cases == SelectSeq(cases_data, LAMBDA c : c.case_type = "Bug")
                query_cases == SelectSeq(cases_data, LAMBDA c : c.case_type = "Query")
                doc_pe_cases == SelectSeq(cases_data, LAMBDA c :
                                    c.case_type \in {"Documentation", "Product Enhancement"})
                integrations == {cases_data[i].integration : i \in 1..Len(cases_data)} \ {"N/A"}
                rows == {IntegrationAnalysisRow(i, cases_data) : i \in integrations}
            IN /\ \E integration_dist \in SortedByTotal(rows) :
                    cr_report' =
                        [total_cases |-> total_cases,
                         open_count |-> open_count,
                         closed_count |-> total_cases - open_count,
                         bug_open |-> OpenIn(bug_cases),
                         bug_closed |-> Len(bug_cases) - OpenIn(bug_cases),
                         query_open |-> OpenIn(query_cases),
                         query_closed |-> Len(query_cases) - OpenIn(query_cases),
                         doc_pe_open |-> OpenIn(doc_pe_cases),
                         doc_pe_closed |-> Len(doc_pe_cases) - OpenIn(doc_pe_cases),
                         integration_analysis |->
                             TakeFirst(integration_dist, TopIntegrationsLimit)]
               /\ cr_pc' = "summarized"
    /\ UNCHANGED <<cr_columns, cr_df, cr_k, cases_data, not_cr>>

MaxCases == 2

CombinedColumns == CombinedFixedCols \o <<"Custom field (Customer)",
                                          "Custom field (Integration Apps)",
                                          "Custom field (Case Type)">>

\* the optional columns of the combined report's table
CombinedOptional == {"Assignee", "Resolved", "Custom field (Customer)",
                     "Custom field (Integration Apps)", "Custom field (Case Type)"}

\* the full layout, and the layouts with one optional column absent
CombinedLayouts ==
    {CombinedColumns} \cup
    {SelectSeq(CombinedColumns, LAMBDA c : c # absent) : absent \in CombinedOptional}

CombinedCells(c) ==
    CASE c = "Status" -> {"Open", "In Progress", "Closed", "open"}
      [] c = "Custom field (Integration Apps)" -> {"Shopify", NaN}
      [] c = "Custom field (Case Type)" -> {"Bug", "Query", NaN, "5"}
      [] c = "Issue key" -> {"CS-0"}
      [] c = "Summary" -> {"Order sync failing"}
      [] c = "Priority" -> {"P2"}
      [] c = "Created" -> {"2025-01-15 10:30"}
      [] c = "Resolution" -> {"Done"}
      [] c = "Custom field (Customer)" -> {"Acme"}
      [] OTHER -> {NaN}

RECURSIVE CombinedRowsOver(_, _)
CombinedRowsOver(cols, n) ==
    IF n = 0 THEN {<<>>}
    ELSE {r @@ (cols[n] :> v) : r \in CombinedRowsOver(cols, n - 1),
                                v \in CombinedCells(cols[n])}

CombinedTables(cols, n) ==
    UNION {{[i \in 1..k |-> [t[i] EXCEPT !["Issue key"] = "CS-" \o ToString(i)]] :
               t \in [1..k -> CombinedRowsOver(cols, Len(cols))]} : k \in 0..n}

InitCombined ==
    /\ OthersIdle("cr")
    /\ cr_columns \in CombinedLayouts
    /\ cr_df \in {read_csv(cr_columns, rows) : rows \in CombinedTables(cr_columns, MaxCases)}
    /\ cr_k = 1
    /\ cases_data = <<>>
    /\ cr_report = <<>>
    /\ cr_pc = "columns"

NextCombined == IdentifyColumns \/ ProcessCase \/ Summarize

SpecCombined == InitCombined /\ [][NextCombined]_vars

\* ---- the open/closed split ----

\* the tickets of the loaded table that count as open by the set of open labels
OpenByLabel(tickets) == Cardinality({i \in tickets : dd_df[i].status \in open_statuses})

\* the open/closed split of the combined report: a case is open exactly when
\* its status is one of open_statuses, in the overall figures, in each case
\* type and in each integration
CombinedSplitByOpenLabels ==
    cr_pc = "summarized" =>
        LET OpenOf(S) == Cardinality({i \in S : cr_df[i]["Status"] \in open_statuses})
            all == 1..Len(cr_df)
            ct == CustomFieldCols(cr_columns, "case type")[1]
            bugs == {i \in all : cr_df[i][ct] = "Bug"}
            queries == {i \in all : cr_df[i][ct] = "Query"}
        IN /\ cr_report.open_count = OpenOf(all)
           /\ cr_report.closed_count = Len(cr_df) - OpenOf(all)
           /\ cr_report.bug_open = OpenOf(bugs)
           /\ cr_report.bug_closed = Cardinality(bugs) - OpenOf(bugs)
           /\ cr_report.query_open = OpenOf(queries)
           /\ cr_report.query_closed = Cardinality(queries) - OpenOf(queries)
           /\ \A n \in 1..Len(cr_report.integration_analysis) :
                 LET r == cr_report.integration_analysis[n]
                     of == {i \in all : "Custom field (Integration Apps)" \in DOMAIN cr_df[i]
                                        /\ cr_df[i]["Custom field (Integration Apps)"] = r.integration}
                 IN r.open_cases = OpenOf(of) /\ r.closed_cases = Cardinality(of) - OpenOf(of)

\* C11: every aggregation that splits a bucket into open and closed counts a
\* ticket as open exactly when its status is one of the open status labels
\* and as closed otherwise; here for the deep dive's flow rows and counts by
\* integration.
C11_OpenIffOpenLabel ==
    /\ \A n \in 1..Len(integration_counts) :
          LET r == integration_counts[n]
              of == {i \in 1..Len(dd_df) : dd_df[i].integration = r.integration}
          IN r.open = OpenByLabel(of) /\ r.closed = Cardinality(of) - OpenByLabel(of)
    /\ \A n \in 1..Len(flows_df) :
          LET r == flows_df[n]
              of == {i \in 1..Len(dd_df) : /\ dd_df[i].integration = r.integration
                                           /\ r.flow_name \in Range(dd_df[i].flows)}
          IN r.open = OpenByLabel(of) /\ r.closed = Cardinality(of) - OpenByLabel(of)

\* ---- representative case keys ----

\* the keys, in the order of the table, of the tickets of an integration that
\* name one of the flows
KeysInInputOrder(integration, flows) ==
    LET of == SelectSeq(dd_df, LAMBDA t : /\ t.integration = integration
                                          /\ Range(t.flows) \cap flows # {})
    IN [i \in 1..Len(of) |-> of[i].case_key]

\* C12: the case keys reported for a bucket are the first ten encountered
\* for it in the order of the input, in the flow rows and in the merged
\* flow groups.
C12_FirstKeysInInputOrder ==
    /\ \A n \in 1..Len(flows_df) :
          flows_df[n].affected_cases =
              Join(TakeFirst(KeysInInputOrder(flows_df[n].integration,
                                              {flows_df[n].flow_name}),
                             AffectedCasesLimit), ", ")
    /\ Merged =>
          \A n \in 1..Len(frequent_flows) :
              LET m == frequent_flows[n]
                  flows == {integration_flows[i].flow : i \in Variants(m)}
              IN DOMAIN m.affected_cases =
                     Range(TakeFirst(KeysInInputOrder(m.integration, flows),
                                     MergedCasesLimit))

\* the flow rows alone list the first ten keys of their tickets in input order
FlowRowsListFirstKeys ==
    \A n \in 1..Len(flows_df) :
        flows_df[n].affected_cases =
            Join(TakeFirst(KeysInInputOrder(flows_df[n].integration, {flows_df[n].flow_name}),
                           AffectedCasesLimit), ", ")

-----------------------------------------------------------------------------
(* re.findall.  A pattern is the list of its items in order: a literal, a  *)
(* character class with its repeat bounds, a group of alternatives (each a *)
(* list of items; an optional group has the empty list as its last         *)
(* alternative), the start and the end of the capture group, a lookahead   *)
(* and the end of the text.  The matcher tries the alternatives in the     *)
(* order a backtracking matcher does: a greedy repeat from its longest run *)
(* down, a lazy one from its shortest up, the alternatives of a group from *)
(* left to right.                                                          *)

\* \s of the patterns, for the whitespace a ticket's text holds
Whitespace == {" ", "\t", "\n", "\r", "\f"}

\* the characters of a string, as a set
Chars(str) == {CharAt(str, i) : i \in 1..Len(str)}

Lit(str) == [k |-> "lit", s |-> str]
Cls(set, neg, min, max, greedy) ==
    [k |-> "cls", set |-> set, neg |-> neg, min |-> min, max |-> max, greedy |-> greedy]
Alt(alts) == [k |-> "alt", alts |-> alts]
Open == [k |-> "open"]
Close == [k |-> "close"]
Ahead(items) == [k |-> "ahead", items |-> items]
AtEnd == [k |-> "end"]

InClass(c, item) == (c \in item.set) # item.neg

\* how many characters from pos on the class takes, item.max at most
RunLen(s, pos, item) ==
    LET last == IF pos + item.max - 1 < Len(s) THEN pos + item.max - 1 ELSE Len(s)
        bad == {i \in pos..last : ~InClass(CharAt(s, i), item)}
    IN IF bad = {} THEN last - pos + 1
       ELSE (CHOOSE i \in bad : \A j \in bad : i <= j) - pos

\* the literal at pos, letter case ignored under re.IGNORECASE
LitAt(s, pos, lit, ignorecase) ==
    /\ pos + Len(lit) - 1 <= Len(s)
    /\ IF ignorecase
       THEN \A i \in 1..Len(lit) :
               LowerChar(CharAt(s, pos + i - 1)) = LowerChar(CharAt(lit, i))
       ELSE SubSeq(s, pos, pos + Len(lit) - 1) = lit

\* the match of the items at pos: <<>> when there is none, else the place
\* after the match and the bounds of the capture group
RECURSIVE MatchItems(_, _, _, _, _, _)
RECURSIVE FirstAlt(_, _, _, _, _, _, _, _)
RECURSIVE FirstCount(_, _, _, _, _, _, _, _, _)

MatchItems(s, items, pos, cs, ce, ignorecase) ==
    IF Len(items) = 0 THEN <<pos, cs, ce>>
    ELSE LET item == Head(items)
             rest == Tail(items)
         IN CASE item.k = "lit" ->
                     IF LitAt(s, pos, item.s, ignorecase)
                     THEN MatchItems(s, rest, pos + Len(item.s), cs, ce, ignorecase)
                     ELSE <<>>
              [] item.k = "open" -> MatchItems(s, rest, pos, pos, ce, ignorecase)
              [] item.k = "close" -> MatchItems(s, rest, pos, cs, pos, ignorecase)
              [] item.k = "end" ->
                     IF pos = Len(s) + 1 \/ (pos = Len(s) /\ CharAt(s, pos) = "\n")
                     THEN MatchItems(s, rest, pos, cs, ce, ignorecase)
                     ELSE <<>>
              [] item.k = "ahead" ->
                     IF MatchItems(s, item.items, pos, cs, ce, ignorecase) # <<>>
                     THEN MatchItems(s, rest, pos, cs, ce, ignorecase)
                     ELSE <<>>
              [] item.k = "alt" -> FirstAlt(s, item.alts, 1, rest, pos, cs, ce, ignorecase)
              [] item.k = "cls" ->
                     LET run == RunLen(s, pos, item)
                     IN IF run < item.min THEN <<>>
                        ELSE FirstCount(s, item.greedy, item.min, run, rest, pos, cs, ce,
                                        ignorecase)

\* the first alternative, from the j-th on, with which the rest matches
FirstAlt(s, alts, j, rest, pos, cs, ce, ignorecase) ==
    IF j > Len(alts) THEN <<>>
    ELSE LET r == MatchItems(s, alts[j] \o rest, pos, cs, ce, ignorecase)
         IN IF r # <<>> THEN r
            ELSE FirstAlt(s, alts, j + 1, rest, pos, cs, ce, ignorecase)

\* the first repeat count of lo..hi, in the order of the repeat, with which
\* the rest matches; the range is halved so that the evaluation stays shallow
FirstCount(s, greedy, lo, hi, rest, pos, cs, ce, ignorecase) ==
    IF lo = hi THEN MatchItems(s, rest, pos + lo, cs, ce, ignorecase)
    ELSE LET mid == (lo + hi) \div 2
             first == IF greedy
                      THEN FirstCount(s, greedy, mid + 1, hi, rest, pos, cs, ce, ignorecase)
                      ELSE FirstCount(s, greedy, lo, mid, rest, pos, cs, ce, ignorecase)
         IN IF first # <<>> THEN first
            ELSE IF greedy
            THEN FirstCount(s, greedy, lo, mid, rest, pos, cs, ce, ignorecase)
            ELSE FirstCount(s, greedy, mid + 1, hi, rest, pos, cs, ce, ignorecase)

\* the captures of the matches from pos on, left to right, no two overlapping
RECURSIVE FindallFrom(_, _, _, _, _)
FindallFrom(s, items, hits, pos, ignorecase) ==
    LET later == {h \in hits : h >= pos}
    IN IF later = {} THEN <<>>
       ELSE LET at == CHOOSE h \in later : \A g \in later : h <= g
                r == MatchItems(s, items, at, 0, 0, ignorecase)
            IN <<SubSeq(s, r[2], r[3] - 1)>>
               \o FindallFrom(s, items, hits, IF r[1] > at THEN r[1] ELSE at + 1, ignorecase)

\* re.findall(pattern, s) for a pattern with one capture group
findall(items, s, ignorecase) ==
    LET hits == {p \in 1..Len(s) : MatchItems(s, items, p, 0, 0, ignorecase) # <<>>}
    IN FindallFrom(s, items, hits, 1, ignorecase)

\* explicit_patterns of extract_flow_names
explicit_patterns == <<
    \* flow\s*name[:\s]+([^\n\]]+?)[\]\n]
    <<Lit("flow"),
      Cls(Whitespace, FALSE, 0, 100000, TRUE),
      Lit("name"),
      Cls(Whitespace \cup Chars(":"), FALSE, 1, 100000, TRUE),
      Open,
      Cls(Chars("\n]"), TRUE, 1, 100000, FALSE),
      Close,
      Cls(Chars("]\n"), FALSE, 1, 1, TRUE)>>,
    \* \[([^\]]{10,80})\]
    <<Lit("["),
      Open,
      Cls(Chars("]"), TRUE, 10, 80, TRUE),
      Close,
      Lit("]")>>,
    \* "([^"]{10,80}(?:flow|import|export|sync)[^"]{0,20})"
    <<Lit("\""),
      Open,
      Cls(Chars("\""), TRUE, 10, 80, TRUE),
      Alt(<<<<Lit("flow")>>, <<Lit("import")>>, <<Lit("export")>>, <<Lit("sync")>>>>),
      Cls(Chars("\""), TRUE, 0, 20, TRUE),
      Close,
      Lit("\"")>>
>>

\* flow_patterns of extract_flow_names
flow_patterns == <<
    \* (?:in|from|at)\s+(?:the\s+)?([a-zA-Z0-9\s\-]+\s+(?:to|from)\s+[a-zA-Z0-9\s\-]+)\s+flow
    <<Alt(<<<<Lit("in")>>, <<Lit("from")>>, <<Lit("at")>>>>),
      Cls(Whitespace, FALSE, 1, 100000, TRUE),
      Alt(<<<<Lit("the"), Cls(Whitespace, FALSE, 1, 100000, TRUE)>>, <<>>>>),
      Open,
      Cls(Whitespace \cup UpperSet \cup LowerSet \cup DigitSet \cup Chars("-"), FALSE, 1, 100000, TRUE),
      Cls(Whitespace, FALSE, 1, 100000, TRUE),
      Alt(<<<<Lit("to")>>, <<Lit("from")>>>>),
      Cls(Whitespace, FALSE, 1, 100000, TRUE),
      Cls(Whitespace \cup UpperSet \cup LowerSet \cup DigitSet \cup Chars("-"), FALSE, 1, 100000, TRUE),
      Close,
      Cls(Whitespace, FALSE, 1, 100000, TRUE),
      Lit("flow")>>,
    \* ([a-zA-Z]+\s+(?:to|from)\s+[a-zA-Z]+\s+(?:flow|import|export|sync))
    <<Open,
      Cls(UpperSet \cup LowerSet, FALSE, 1, 100000, TRUE),
      Cls(Whitespace, FALSE, 1, 100000, TRUE),
      Alt(<<<<Lit("to")>>, <<Lit("from")>>>>),
      Cls(Whitespace, FALSE, 1, 100000, TRUE),
      Cls(UpperSet \cup LowerSet, FALSE, 1, 100000, TRUE),
      Cls(Whitespace, FALSE, 1, 100000, TRUE),
      Alt(<<<<Lit("flow")>>, <<Lit("import")>>, <<Lit("export")>>, <<Lit("sync")>>>>),
      Close>>,
    \* (?:the|a)\s+([a-zA-Z0-9\s]+(?:import|export|sync|flow))\s+(?:is|has|was|flow)
    <<Alt(<<<<Lit("the")>>, <<Lit("a")>>>>),
      Cls(Whitespace, FALSE, 1, 100000, TRUE),
      Open,
      Cls(Whitespace \cup UpperSet \cup LowerSet \cup DigitSet, FALSE, 1, 100000, TRUE),
      Alt(<<<<Lit("import")>>, <<Lit("export")>>, <<Lit("sync")>>, <<Lit("flow")>>>>),
      Close,
      Cls(Whitespace, FALSE, 1, 100000, TRUE),
      Alt(<<<<Lit("is")>>, <<Lit("has")>>, <<Lit("was")>>, <<Lit("flow")>>>>)>>
>>

\* field_patterns of extract_field_mappings
field_patterns == <<
    \* field[:\s]+([a-zA-Z0-9_\s]+?)(?=\s+(?:is|not|missing|error|fail|$))
    <<Lit("field"),
      Cls(Whitespace \cup Chars(":"), FALSE, 1, 100000, TRUE),
      Open,
      Cls(Whitespace \cup UpperSet \cup LowerSet \cup DigitSet \cup Chars("_"), FALSE, 1, 100000, FALSE),
      Close,
      Ahead(<<Cls(Whitespace, FALSE, 1, 100000, TRUE), Alt(<<<<Lit("is")>>, <<Lit("not")>>, <<Lit("missing")>>, <<Lit("error")>>, <<Lit("fail")>>, <<AtEnd>>>>)>>)>>,
    \* mapping[:\s]+([^,.\n]+?)(?=\s+(?:is|not|missing|error|fail|$))
    <<Lit("mapping"),
      Cls(Whitespace \cup Chars(":"), FALSE, 1, 100000, TRUE),
      Open,
      Cls(Chars(",.\n"), TRUE, 1, 100000, FALSE),
      Close,
      Ahead(<<Cls(Whitespace, FALSE, 1, 100000, TRUE), Alt(<<<<Lit("is")>>, <<Lit("not")>>, <<Lit("missing")>>, <<Lit("error")>>, <<Lit("fail")>>, <<AtEnd>>>>)>>)>>,
    \* (?:missing|undefined|null)\s+(?:field|value|mapping)[:\s]+([a-zA-Z0-9_\s]+)
    <<Alt(<<<<Lit("missing")>>, <<Lit("undefined")>>, <<Lit("null")>>>>),
      Cls(Whitespace, FALSE, 1, 100000, TRUE),
      Alt(<<<<Lit("field")>>, <<Lit("value")>>, <<Lit("mapping")>>>>),
      Cls(Whitespace \cup Chars(":"), FALSE, 1, 100000, TRUE),
      Open,
      Cls(Whitespace \cup UpperSet \cup LowerSet \cup DigitSet \cup Chars("_"), FALSE, 1, 100000, TRUE),
      Close>>,
    \* ([a-zA-Z0-9_]+)\s+field\s+(?:is|not|missing|error)
    <<Open,
      Cls(UpperSet \cup LowerSet \cup DigitSet \cup Chars("_"), FALSE, 1, 100000, TRUE),
      Close,
      Cls(Whitespace, FALSE, 1, 100000, TRUE),
      Lit("field"),
      Cls(Whitespace, FALSE, 1, 100000, TRUE),
      Alt(<<<<Lit("is")>>, <<Lit("not")>>, <<Lit("missing")>>, <<Lit("error")>>>>)>>,
    \* custom\s+field[:\s]+([a-zA-Z0-9_\s]+)
    <<Lit("custom"),
      Cls(Whitespace, FALSE, 1, 100000, TRUE),
      Lit("field"),
      Cls(Whitespace \cup Chars(":"), FALSE, 1, 100000, TRUE),
      Open,
      Cls(Whitespace \cup UpperSet \cup LowerSet \cup DigitSet \cup Chars("_"), FALSE, 1, 100000, TRUE),
      Close>>,
    \* (?:netsuite|shopify|salesforce|amazon)\s+field[:\s]+([a-zA-Z0-9_\s]+)
    <<Alt(<<<<Lit("netsuite")>>, <<Lit("shopify")>>, <<Lit("salesforce")>>, <<Lit("amazon")>>>>),
      Cls(Whitespace, FALSE, 1, 100000, TRUE),
      Lit("field"),
      Cls(Whitespace \cup Chars(":"), FALSE, 1, 100000, TRUE),
      Open,
      Cls(Whitespace \cup UpperSet \cup LowerSet \cup DigitSet \cup Chars("_"), FALSE, 1, 100000, TRUE),
      Close>>
>>

\* error_patterns of extract_error_messages
error_patterns == <<
    \* [Ee]rror[:\s]+"([^"]{20,200})"
    <<Cls(Chars("Ee"), FALSE, 1, 1, TRUE),
      Lit("rror"),
      Cls(Whitespace \cup Chars(":"), FALSE, 1, 100000, TRUE),
      Lit("\""),
      Open,
      Cls(Chars("\""), TRUE, 20, 200, TRUE),
      Close,
      Lit("\"")>>,
    \* [Ee]rror[:\s]+([A-Z][^.\n]{20,200}[.!])
    <<Cls(Chars("Ee"), FALSE, 1, 1, TRUE),
      Lit("rror"),
      Cls(Whitespace \cup Chars(":"), FALSE, 1, 100000, TRUE),
      Open,
      Cls(UpperSet, FALSE, 1, 1, TRUE),
      Cls(Chars(".\n"), TRUE, 20, 200, TRUE),
      Cls(Chars(".!"), FALSE, 1, 1, TRUE),
      Close>>,
    \* [Ee]xception[:\s]+([A-Z][^.\n]{20,200}[.!])
    <<Cls(Chars("Ee"), FALSE, 1, 1, TRUE),
      Lit("xception"),
      Cls(Whitespace \cup Chars(":"), FALSE, 1, 100000, TRUE),
      Open,
      Cls(UpperSet, FALSE, 1, 1, TRUE),
      Cls(Chars(".\n"), TRUE, 20, 200, TRUE),
      Cls(Chars(".!"), FALSE, 1, 1, TRUE),
      Close>>,
    \* ([Ss]tatus [Cc]ode[:\s]+\d{3}[^.\n]{0,100})
    <<Open,
      Cls(Chars("Ss"), FALSE, 1, 1, TRUE),
      Lit("tatus "),
      Cls(Chars("Cc"), FALSE, 1, 1, TRUE),
      Lit("ode"),
      Cls(Whitespace \cup Chars(":"), FALSE, 1, 100000, TRUE),
      Cls(DigitSet, FALSE, 3, 3, TRUE),
      Cls(Chars(".\n"), TRUE, 0, 100, TRUE),
      Close>>,
    \* ([Ff]ailed to [^.\n]{10,150}[.!])
    <<Open,
      Cls(Chars("Ff"), FALSE, 1, 1, TRUE),
      Lit("ailed to "),
      Cls(Chars(".\n"), TRUE, 10, 150, TRUE),
      Cls(Chars(".!"), FALSE, 1, 1, TRUE),
      Close>>,
    \* ([Uu]unable to [^.\n]{10,150}[.!])
    <<Open,
      Cls(Chars("Uu"), FALSE, 1, 1, TRUE),
      Lit("unable to "),
      Cls(Chars(".\n"), TRUE, 10, 150, TRUE),
      Cls(Chars(".!"), FALSE, 1, 1, TRUE),
      Close>>,
    \* ([Cc]annot [^.\n]{10,150}[.!])
    <<Open,
      Cls(Chars("Cc"), FALSE, 1, 1, TRUE),
      Lit("annot "),
      Cls(Chars(".\n"), TRUE, 10, 150, TRUE),
      Cls(Chars(".!"), FALSE, 1, 1, TRUE),
      Close>>,
    \* ((?:Invalid|Missing|Undefined)[^.\n]{10,150}[.!])
    <<Open,
      Alt(<<<<Lit("Invalid")>>, <<Lit("Missing")>>, <<Lit("Undefined")>>>>),
      Cls(Chars(".\n"), TRUE, 10, 150, TRUE),
      Cls(Chars(".!"), FALSE, 1, 1, TRUE),
      Close>>,
    \* (hook (?:function )?error[^.\n]{10,150})
    <<Open,
      Lit("hook "),
      Alt(<<<<Lit("function ")>>, <<>>>>),
      Lit("error"),
      Cls(Chars(".\n"), TRUE, 10, 150, TRUE),
      Close>>,
    \* (Integration (?:is )?corrupted[^.\n]{0,100})
    <<Open,
      Lit("Integration "),
      Alt(<<<<Lit("is ")>>, <<>>>>),
      Lit("corrupted"),
      Cls(Chars(".\n"), TRUE, 0, 100, TRUE),
      Close>>
>>

-----------------------------------------------------------------------------
(* The text extractors of deep_dive_detailed_analysis.py                   *)

\* str.strip(chars): the characters of chars off both ends
StripChars(s, chars) ==
    LET keep == {i \in 1..Len(s) : CharAt(s, i) \notin chars}
    IN IF keep = {} THEN ""
       ELSE SubSeq(s, CHOOSE i \in keep : \A j \in keep : i <= j,
                      CHOOSE i \in keep : \A j \in keep : j <= i)

\* re.sub(r'\s+', ' ', s): every run of whitespace becomes one space
CollapseWhitespace(s) ==
    LET kept == {i \in 1..Len(s) : \/ CharAt(s, i) \notin Whitespace
                                   \/ i = 1
                                   \/ CharAt(s, i - 1) \notin Whitespace}
        nth(k) == CHOOSE p \in kept : Cardinality({q \in kept : q < p}) = k - 1
        chars == [k \in 1..Cardinality(kept) |->
                     IF CharAt(s, nth(k)) \in Whitespace THEN " " ELSE CharAt(s, nth(k))]
    IN Join(chars, "")

\* the matches of the patterns of a list, pattern after pattern
RECURSIVE FindallEach(_, _, _, _)
FindallEach(patterns, i, s, ignorecase) ==
    IF i > Len(patterns) THEN <<>>
    ELSE findall(patterns[i], s, ignorecase) \o FindallEach(patterns, i + 1, s, ignorecase)

\* the values of flow_keywords, category after category
flow_keywords == <<
    "order to netsuite", "netsuite to order", "order import", "order export",
    "sales order", "purchase order", "order sync",
    "product import", "product export", "product sync", "item sync",
    "inventory sync", "inventory import", "inventory export",
    "customer sync", "customer import", "customer export",
    "item fulfillment", "fulfillment sync", "fulfillment import",
    "settlement", "settlement import", "settlement report",
    "shipment", "shipment import", "shipment export",
    "refund", "refund import", "refund sync",
    "payment sync", "payment import", "customer payment",
    "invoice sync", "invoice import", "invoice export",
    "cash sale", "cash sale import",
    "credit memo", "credit memo import" >>

generic_flows == <<"the flow", "a flow", "this flow", "run the", "failed to",
                   "unable to", "trying to", "want to", "need to">>

\* the candidate flow names of a text: the matches of explicit_patterns, then
\* those of flow_patterns, then the keywords the lowercased text holds
FlowCandidates(text_str) ==
    LET text_lower == Lower(text_str)
    IN FindallEach(explicit_patterns, 1, text_str, TRUE)
       \o FindallEach(flow_patterns, 1, text_str, TRUE)
       \o SelectSeq(flow_keywords, LAMBDA keyword : Contains(text_lower, keyword))

\* flow.strip().strip(':').strip(',').strip(']').strip('['), whitespace collapsed
CleanFlow(flow) ==
    CollapseWhitespace(
        StripChars(StripChars(StripChars(StripChars(Strip(flow), {":"}), {","}), {"]"}), {"["}))

\* the loop over flows: a cleaned name is kept unless it is shorter than five
\* characters, holds a generic phrase, or was seen before in another case
RECURSIVE CleanFlows(_, _, _, _)
CleanFlows(flows, i, cleaned_flows, seen_flows) ==
    IF i > Len(flows) THEN cleaned_flows
    ELSE LET flow == CleanFlow(flows[i])
             flow_lower == Lower(flow)
         IN IF Len(flow) < 5 \/ AnyIn(flow_lower, generic_flows) \/ flow_lower \in seen_flows
            THEN CleanFlows(flows, i + 1, cleaned_flows, seen_flows)
            ELSE CleanFlows(flows, i + 1, Append(cleaned_flows, flow),
                            seen_flows \cup {flow_lower})

FlowLimit == 8

\* the cleaned flows with no cut
extract_flow_names_Uncapped(text) ==
    IF text = NaN THEN <<>>
    ELSE CleanFlows(FlowCandidates(Str(text)), 1, <<>>, {})

extract_flow_names(text) ==
    IF text = NaN THEN <<>>
    ELSE TakeFirst(CleanFlows(FlowCandidates(Str(text)), 1, <<>>, {}), FlowLimit)

\* mapping.strip().strip(':').strip(',')
CleanMapping(mapping) == StripChars(StripChars(Strip(mapping), {":"}), {","})

\* the loop over mappings: kept when longer than two characters and not kept
\* already
RECURSIVE CleanMappings(_, _, _)
CleanMappings(mappings, i, cleaned_mappings) ==
    IF i > Len(mappings) THEN cleaned_mappings
    ELSE LET mapping == CleanMapping(mappings[i])
         IN IF Len(mapping) > 2 /\ mapping \notin Range(cleaned_mappings)
            THEN CleanMappings(mappings, i + 1, Append(cleaned_mappings, mapping))
            ELSE CleanMappings(mappings, i + 1, cleaned_mappings)

MappingLimit == 15

extract_field_mappings(text) ==
    IF text = NaN THEN <<>>
    ELSE TakeFirst(CleanMappings(FindallEach(field_patterns, 1, Str(text), TRUE), 1, <<>>),
                   MappingLimit)

generic_phrases == <<"still persists", "not working", "issue", "problem", "please",
                     "thank you", "steps to reproduce">>

\* error.strip().strip(':').strip(',').strip('"')
CleanError(error) == StripChars(StripChars(StripChars(Strip(error), {":"}), {","}), {"\""})

\* the filters of the loop over errors: the length, the generic phrases and
\* the number of words
PassesErrorFilters(error) ==
    /\ Len(error) >= 20 /\ Len(error) <= 200
    /\ ~AnyIn(Lower(error), generic_phrases)
    /\ Len(Split(error)) >= 4

\* the error was seen in the same words
IsDuplicateError_Exact(error_lower, seen_errors) == error_lower \in seen_errors

\* error_lower in seen or seen in error_lower, for some seen
IsDuplicateError(error_lower, seen_errors) ==
    \E seen \in seen_errors : Contains(seen, error_lower) \/ Contains(error_lower, seen)

RECURSIVE CleanErrors(_, _, _, _)
CleanErrors(errors, i, cleaned_errors, seen_errors) ==
    IF i > Len(errors) THEN cleaned_errors
    ELSE LET error == CleanError(errors[i])
         IN IF PassesErrorFilters(error) /\ ~IsDuplicateError(Lower(error), seen_errors)
            THEN CleanErrors(errors, i + 1, Append(cleaned_errors, error),
                             seen_errors \cup {Lower(error)})
            ELSE CleanErrors(errors, i + 1, cleaned_errors, seen_errors)

ErrorLimit == 5

extract_error_messages(text) ==
    IF text = NaN THEN <<>>
    ELSE TakeFirst(CleanErrors(FindallEach(error_patterns, 1, Str(text), FALSE), 1, <<>>, {}),
                   ErrorLimit)

record_types == <<
    "sales order", "purchase order", "customer", "item", "invoice",
    "cash sale", "item fulfillment", "item receipt", "vendor bill",
    "credit memo", "customer deposit", "journal entry", "inventory adjustment",
    "transfer order", "assembly build", "work order", "opportunity",
    "estimate", "return authorization", "vendor payment", "customer payment" >>

RecordTypeLimit == 10

\* the record types found, or the words of the report cell when there are none
extract_record_types_OrNotSpecified(text) ==
    LET found_types == IF text = NaN THEN <<>>
                       ELSE SelectSeq(record_types, LAMBDA r : Contains(Lower(Str(text)), r))
    IN IF found_types = <<>> THEN <<"Not specified">> ELSE TakeFirst(found_types, RecordTypeLimit)

\* found_types is record_types without the entries the text does not hold
extract_record_types(text) ==
    IF text = NaN THEN <<>>
    ELSE LET text_str == Lower(Str(text))
         IN TakeFirst(SelectSeq(record_types, LAMBDA r : Contains(text_str, r)),
                      RecordTypeLimit)


-----------------------------------------------------------------------------
(* deep_dive_detailed_analysis.py: one ticket through the five extractors, *)
(* as the row loop of deep_dive_analysis calls them, and the extractors    *)
(* called on a value directly                                              *)

\* the text of a row: f"{summary}\n{description}", then "\n" and the comment
\* for every comment column whose cell is not missing
RowText(row) ==
    LET summary == ValueOr(row.summary, "")
        description == ValueOr(row.description, "")
    IN summary \o "\n" \o description
       \o (IF notna(row.comment) THEN "\n" \o Str(row.comment) ELSE "")

BuildAllText ==
    /\ ex_pc = "text"
    /\ ex_text' = RowText(ex_ticket)
    /\ ex_pc' = "flows"
    /\ UNCHANGED <<ex_ticket, ex_flows, ex_mappings, ex_errors, ex_pre_prd, ex_record_types,
                   not_ex>>

\* flows = extract_flow_names(all_text)
ExtractFlows ==
    /\ ex_pc = "flows"
    /\ ex_flows' = extract_flow_names(ex_text)
    /\ ex_pc' = "mappings"
    /\ UNCHANGED <<ex_ticket, ex_text, ex_mappings, ex_errors, ex_pre_prd, ex_record_types,
                   not_ex>>

\* mappings = extract_field_mappings(all_text)
ExtractMappings ==
    /\ ex_pc = "mappings"
    /\ ex_mappings' = extract_field_mappings(ex_text)
    /\ ex_pc' = "errors"
    /\ UNCHANGED <<ex_ticket, ex_text, ex_flows, ex_errors, ex_pre_prd, ex_record_types,
                   not_ex>>

\* errors = extract_error_messages(all_text)
ExtractErrors ==
    /\ ex_pc = "errors"
    /\ ex_errors' = extract_error_messages(ex_text)
    /\ ex_pc' = "pre_prd"
    /\ UNCHANGED <<ex_ticket, ex_text, ex_flows, ex_mappings, ex_pre_prd, ex_record_types,
                   not_ex>>

\* pre_prd = extract_pre_prd_references(all_text)
ExtractPrePrd ==
    /\ ex_pc = "pre_prd"
    /\ ex_pre_prd' \in extract_pre_prd_references(ex_text)
    /\ ex_pc' = "record_types"
    /\ UNCHANGED <<ex_ticket, ex_text, ex_flows, ex_mappings, ex_errors, ex_record_types,
                   not_ex>>

\* record_types = extract_record_types(all_text)
ExtractRecordTypes ==
    /\ ex_pc = "record_types"
    /\ ex_record_types' = extract_record_types(ex_text)
    /\ ex_pc' = "done"
    /\ UNCHANGED <<ex_ticket, ex_text, ex_flows, ex_mappings, ex_errors, ex_pre_prd, not_ex>>

ExSummaries == {
    NaN,
    "",
    "Order import failing at the Shopify to NetSuite flow" }

ExDescriptions == {
    NaN,
    "",
    "[Shopify Order Import Add] has order import, order export, purchase order, order sync, product import, item sync, inventory sync, customer sync",
    "Flow Name: Order Sync]\nthe ORDER SYNC is down",
    "Field: Amount is wrong. field: amount is wrong",
    "Field: Amount is wrong, a01 field is, a02 field is, a03 field is, a04 field is, a05 field is, a06 field is, a07 field is, a08 field is, a09 field is, a10 field is, a11 field is, a12 field is, a13 field is, a14 field is, a15 field is",
    "Error: \"Failed to import the order record.\" Status Code: 404 for the shopify order",
    "Failed to import the order one. Failed to export the item two. Cannot find the customer three. Cannot open the invoice four. Invalid value of price five. Missing value of quantity six.",
    "sales order, purchase order, customer, item, invoice, cash sale, item fulfillment, item receipt, vendor bill, credit memo, customer deposit",
    "Exception: Import failed to save the order record. Failed to synchronize." }

ExComments == {
    NaN,
    "",
    "order sync failed, see pre-100 and PRE-100" }

ExTickets == [summary : ExSummaries, description : ExDescriptions, comment : ExComments]

\* the values the extractors are called on directly
ExDirectTexts == {NaN, ""}

\* a row of the table on its way into the loop body, or a direct call
InitExtract ==
    /\ OthersIdle("ex")
    /\ \/ /\ ex_ticket \in ExTickets
          /\ ex_text = ""
          /\ ex_pc = "text"
       \/ /\ ex_ticket = <<>>
          /\ ex_text \in ExDirectTexts
          /\ ex_pc = "flows"
    /\ ex_flows = <<>>
    /\ ex_mappings = <<>>
    /\ ex_errors = <<>>
    /\ ex_pre_prd = <<>>
    /\ ex_record_types = <<>>

NextExtract ==
    \/ BuildAllText
    \/ ExtractFlows
    \/ ExtractMappings
    \/ ExtractErrors
    \/ ExtractPrePrd
    \/ ExtractRecordTypes

SpecExtract == InitExtract /\ [][NextExtract]_vars


-----------------------------------------------------------------------------
(* The caps of the extractors                                              *)

\* a is the first entries of b
IsPrefix(a, b) == Len(a) <= Len(b) /\ a = SubSeq(b, 1, Len(a))

\* the candidate lists the extractors cut: what the cleaning loops leave, in
\* the order of the rules that found them
CleanedFlows(text) == CleanFlows(FlowCandidates(Str(text)), 1, <<>>, {})

CleanedMappings(text) == CleanMappings(FindallEach(field_patterns, 1, Str(text), TRUE), 1, <<>>)

CleanedErrors(text) == CleanErrors(FindallEach(error_patterns, 1, Str(text), FALSE), 1, <<>>, {})

FoundTypes(text) == SelectSeq(record_types, LAMBDA r : Contains(Lower(Str(text)), r))

-----------------------------------------------------------------------------
(* Duplicates in the extractor outputs                                     *)

\* no two entries of the list are equal when letter case is ignored
NoCaseDuplicates(list) ==
    \A i, j \in 1..Len(list) : i # j => Lower(list[i]) # Lower(list[j])

\* C14: the outputs of the flow, field mapping, reference and record type
\* extractors hold no two entries that are equal ignoring letter case.
C14_NoCaseDuplicates ==
    ex_pc = "done" =>
        /\ NoCaseDuplicates(ex_flows)
        /\ NoCaseDuplicates(ex_mappings)
        /\ NoCaseDuplicates(ex_pre_prd)
        /\ NoCaseDuplicates(ex_record_types)

\* the part of C14 that the flow and record type extractors keep: no
\* duplicates ignoring case, the entries in the order of the candidates
FlowsAndTypesHaveNoCaseDuplicates ==
    ex_pc = "done" =>
        /\ NoCaseDuplicates(ex_flows)
        /\ NoCaseDuplicates(ex_record_types)
        /\ IsPrefix(ex_flows, CleanedFlows(ex_text))


-----------------------------------------------------------------------------
(* The near-duplicate suppression of extract_error_messages                *)

\* the candidates of extract_error_messages, cleaned, in the order the loop
\* meets them
ErrorCandidates(text) ==
    LET errors == FindallEach(error_patterns, 1, Str(text), FALSE)
    IN [i \in 1..Len(errors) |-> CleanError(errors[i])]

\* the errors the loop has kept when it comes to candidate i
KeptBefore(text, i) ==
    CleanErrors(SubSeq(FindallEach(error_patterns, 1, Str(text), FALSE), 1, i - 1), 1, <<>>, {})

\* candidate i is in the output: the loop appends it and the cut leaves it
InOutput(text, i) ==
    /\ Len(KeptBefore(text, i + 1)) = Len(KeptBefore(text, i)) + 1
    /\ Len(KeptBefore(text, i + 1)) <= ErrorLimit

\* one of the two is, ignoring letter case, a substring of the other
NearDuplicates(a, b) == Contains(Lower(a), Lower(b)) \/ Contains(Lower(b), Lower(a))

\* no entry of the output is within another, each has four words or more
ErrorsApartAndWordy(errors) ==
    /\ \A i, j \in 1..Len(errors) : i # j => ~NearDuplicates(errors[i], errors[j])
    /\ \A i \in 1..Len(errors) : Len(Split(errors[i])) >= 4

\* C15 as stated: in the output of extract_error_messages no entry is,
\* ignoring case, a substring of another, every entry has at least 4 words,
\* and a candidate is dropped only if it fails a filter or is a substring of,
\* or contains, a candidate kept before it.
C15_DroppedOnlyByFilterOrNearDuplicate ==
    ex_pc = "done" /\ ex_text # NaN =>
        /\ ErrorsApartAndWordy(ex_errors)
        /\ \A i \in 1..Len(ErrorCandidates(ex_text)) :
              ~InOutput(ex_text, i) =>
                  \/ ~PassesErrorFilters(ErrorCandidates(ex_text)[i])
                  \/ \E k \in 1..Len(KeptBefore(ex_text, i)) :
                        NearDuplicates(ErrorCandidates(ex_text)[i], KeptBefore(ex_text, i)[k])

\* C15, amended: as above, with the cap as a third reason to drop a
\* candidate: five candidates were kept before it.
C15_DroppedOnlyByFilterNearDuplicateOrCap ==
    ex_pc = "done" /\ ex_text # NaN =>
        /\ ErrorsApartAndWordy(ex_errors)
        /\ \A i \in 1..Len(ErrorCandidates(ex_text)) :
              ~InOutput(ex_text, i) =>
                  \/ ~PassesErrorFilters(ErrorCandidates(ex_text)[i])
                  \/ \E k \in 1..Len(KeptBefore(ex_text, i)) :
                        NearDuplicates(ErrorCandidates(ex_text)[i], KeptBefore(ex_text, i)[k])
                  \/ Len(KeptBefore(ex_text, i)) >= ErrorLimit

\* a ticket with a sixth candidate that passes the filters and is within no
\* other: five errors are returned and the sixth is not among them
C15_Witness ==
    /\ ex_pc = "done"
    /\ Len(ex_errors) = ErrorLimit
    /\ \E i \in 1..Len(ErrorCandidates(ex_text)) :
          /\ ~InOutput(ex_text, i)
          /\ PassesErrorFilters(ErrorCandidates(ex_text)[i])
          /\ \A k \in 1..Len(ex_errors) : ~NearDuplicates(ErrorCandidates(ex_text)[i], ex_errors[k])

\* a ticket with a candidate within an error kept before it, and one with
\* fewer than four words: one error is returned
NearDuplicateDropped ==
    /\ ex_pc = "done"
    /\ Len(ex_errors) = 1
    /\ \E i, j \in 1..Len(ErrorCandidates(ex_text)) :
          /\ ErrorCandidates(ex_text)[i] # ex_errors[1]
          /\ NearDuplicates(ErrorCandidates(ex_text)[i], ex_errors[1])
          /\ ~PassesErrorFilters(ErrorCandidates(ex_text)[j])


-----------------------------------------------------------------------------
(* Tickets without text                                                    *)

\* the cell is missing or holds the empty string
Blank(v) == v = NaN \/ v = ""

\* the state is that of a direct call of the extractors, not of a row
DirectCall == DOMAIN ex_ticket = {}

AllExtractsEmpty ==
    /\ ex_flows = <<>>
    /\ ex_mappings = <<>>
    /\ ex_errors = <<>>
    /\ ex_pre_prd = <<>>
    /\ ex_record_types = <<>>

\* C16 as stated: for a ticket whose summary and description are empty or
\* missing each of the five extractors returns an empty sequence, both when
\* called with a missing value and when called on the text deep_dive_analysis
\* builds for the ticket.
C16_NoSummaryNoDescriptionYieldsNothing ==
    ex_pc = "done" =>
        IF DirectCall THEN AllExtractsEmpty
        ELSE Blank(ex_ticket.summary) /\ Blank(ex_ticket.description) => AllExtractsEmpty

\* C16, amended: the same for a ticket whose summary, description and comment
\* fields are all empty or missing.
C16_NoTextYieldsNothing ==
    ex_pc = "done" =>
        IF DirectCall THEN AllExtractsEmpty
        ELSE Blank(ex_ticket.summary) /\ Blank(ex_ticket.description)
             /\ Blank(ex_ticket.comment) => AllExtractsEmpty

\* a row with no summary, no description and an empty comment has been through
\* the five extractors: its text is two line ends and nothing was extracted
C16_Witness ==
    /\ ex_pc = "done"
    /\ ~DirectCall
    /\ ex_ticket.summary = NaN
    /\ ex_ticket.description = ""
    /\ ex_ticket.comment = ""
    /\ ex_text = "\n\n"
    /\ AllExtractsEmpty

\* the extractors called on a missing value have returned
MissingValueExtracted ==
    /\ ex_pc = "done"
    /\ DirectCall
    /\ ex_text = NaN
    /\ AllExtractsEmpty


-----------------------------------------------------------------------------
(* Sections without a ticket                                               *)

\* C17: when no ticket of a table with tickets has a flow extracted for an integration,
\* the flow stage yields an empty collection and the run goes on: the rows are
\* all processed, the flow frame is empty and the run has not stopped in an
\* exception.
C17_EmptySectionCompletes ==
    (Len(dd_df) > 0 /\ dd_pc # "rows" /\ integration_flows = <<>>) =>
        /\ dd_pc # "KeyError"
        /\ flows_df = <<>>

\* the code fix section of the combined report: with no ticket of Resolution
\* 'Done', analyze_code_fixes_with_links returns None, for which the sheet is
\* left out
NoDoneTicketReturnsNone ==
    (cf_pc = "returned" /\ \A i \in 1..Len(df) : df[i]["Resolution"] # "Done") =>
        cf_result = None

\* a table without a 'Done' ticket has been through analyze_code_fixes_with_links
NoDoneTicketReturned ==
    /\ cf_pc = "returned"
    /\ Len(df) > 0
    /\ \A i \in 1..Len(df) : df[i]["Resolution"] # "Done"
    /\ cf_result = None


-----------------------------------------------------------------------------
(* deep_dive_detailed_analysis.py: the count by month                      *)

\* the column names looked for, in the order they are tried
DateColumnNames == <<"Created", "Created Date", "created", "Timestamp">>

\* the first of them that the table has, "" for none
created_col(columns) ==
    LET found == {i \in 1..Len(DateColumnNames) : DateColumnNames[i] \in columns}
    IN IF found = {} THEN ""
       ELSE DateColumnNames[CHOOSE i \in found : \A j \in found : i <= j]

\* the number a string of digits writes
RECURSIVE ToNumber(_)
ToNumber(digits) ==
    IF Len(digits) = 0 THEN 0
    ELSE 10 * ToNumber(SubSeq(digits, 1, Len(digits) - 1))
         + (IndexIn("0123456789", CharAt(digits, Len(digits))) - 1)

\* the days of a month
DaysIn(year, month) ==
    IF month \in {4, 6, 9, 11} THEN 30
    ELSE IF month # 2 THEN 31
    ELSE IF year % 4 = 0 /\ (year % 100 # 0 \/ year % 400 = 0) THEN 29
    ELSE 28

\* the cell is a date written year-month-day, the one form of date in the
\* tables explored
IsDate(cell) ==
    /\ cell # NaN
    /\ Len(cell) = 10
    /\ \A i \in {1, 2, 3, 4, 6, 7, 9, 10} : IsDigit(CharAt(cell, i))
    /\ CharAt(cell, 5) = "-" /\ CharAt(cell, 8) = "-"
    /\ ToNumber(SubSeq(cell, 6, 7)) \in 1..12
    /\ ToNumber(SubSeq(cell, 9, 10)) \in
           1..DaysIn(ToNumber(SubSeq(cell, 1, 4)), ToNumber(SubSeq(cell, 6, 7)))

\* what astype(str) makes of a month that is missing: the text 'NaT' in the
\* releases of pandas that turn every value into text, the missing value in
\* those that keep missing values
MissingMonths == {"NaT", NaN}

\* pd.to_datetime(cell, errors='coerce').to_period('M') as text: the year and
\* month of a date, what a missing month reads as for any other cell
Month(cell, missing) == IF IsDate(cell) THEN SubSeq(cell, 1, 7) ELSE missing

\* the texts in the order sorted() gives them
RECURSIVE SortedTexts(_)
SortedTexts(S) ==
    IF S = {} THEN <<>>
    ELSE LET least == CHOOSE a \in S : \A b \in S \ {a} : StrLess(a, b)
         IN <<least>> \o SortedTexts(S \ {least})

\* the row of a month; the text of its three most frequent integrations is
\* left out
MonthRow(month, cases) ==
    LET month_cases == SelectSeq(cases, LAMBDA r : r.month = month)
        n(P(_)) == Cardinality({i \in 1..Len(month_cases) : P(month_cases[i])})
    IN [month |-> month,
        total_cases |-> Len(month_cases),
        bug |-> n(LAMBDA r : r.case_type = "Bug"),
        query |-> n(LAMBDA r : r.case_type = "Query"),
        documentation |-> n(LAMBDA r : r.case_type = "Documentation"),
        product_enhancement |-> n(LAMBDA r : r.case_type = "Product Enhancement"),
        open |-> n(LAMBDA r : Lower(r.status) \notin {"closed", "resolved"}),
        closed |-> n(LAMBDA r : Lower(r.status) \in {"closed", "resolved"}),
        p1 |-> n(LAMBDA r : r.priority = "P1"),
        p2 |-> n(LAMBDA r : r.priority = "P2"),
        p3 |-> n(LAMBDA r : r.priority = "P3"),
        p4 |-> n(LAMBDA r : r.priority = "P4")]

\* cases_df['Month'] = pd.to_datetime(df[created_col], errors='coerce')
\*                         .dt.to_period('M').astype(str)
\* and the months to count: sorted(cases_df['Month'].dropna().unique())
AddMonthColumn ==
    /\ mo_pc = "start"
    /\ created_col(mo_columns) # ""
    /\ \E missing \in MissingMonths :
          /\ cases_df' = [i \in 1..Len(mo_df) |->
                             [case_key |-> mo_df[i].case_key,
                              case_type |-> mo_df[i].case_type,
                              priority |-> mo_df[i].priority,
                              status |-> mo_df[i].status,
                              month |-> Month(mo_df[i].cells[created_col(mo_columns)], missing)]]
          /\ mo_months' = SortedTexts({cases_df'[i].month : i \in 1..Len(mo_df)} \ {NaN})
    /\ mo_pc' = "loop"
    /\ UNCHANGED <<mo_columns, mo_df, monthly_counts, monthly_count_df, not_mo>>

\* one turn of: for month in sorted(...)
CountMonth ==
    /\ mo_pc = "loop"
    /\ Len(mo_months) > 0
    /\ monthly_counts' = Append(monthly_counts, MonthRow(Head(mo_months), cases_df))
    /\ mo_months' = Tail(mo_months)
    /\ UNCHANGED <<mo_columns, mo_df, cases_df, monthly_count_df, mo_pc, not_mo>>

\* monthly_count_df = pd.DataFrame(monthly_counts)
FrameMonths ==
    /\ mo_pc = "loop"
    /\ Len(mo_months) = 0
    /\ monthly_count_df' = monthly_counts
    /\ mo_pc' = "done"
    /\ UNCHANGED <<mo_columns, mo_df, cases_df, mo_months, monthly_counts, not_mo>>

\* without a date column the sheet is one row that says so
NoDateColumn ==
    /\ mo_pc = "start"
    /\ created_col(mo_columns) = ""
    /\ monthly_count_df' = <<[month |-> "N/A", total_cases |-> Len(cases_df),
                             note |-> "No date column found"]>>
    /\ mo_pc' = "done"
    /\ UNCHANGED <<mo_columns, mo_df, cases_df, mo_months, monthly_counts, not_mo>>

MaxMonthTickets == 3

\* the date columns a table may have
DateColumnSets == {{}, {"Created"}, {"Created Date", "Timestamp"}}

CreatedCells == {"2025-01-15", "2025-02-03", "2025-02-30", "unknown", NaN}

MonthCaseTypes == <<"Bug", "Query", "Unknown">>
MonthPriorities == <<"P1", "P3", "P4">>
MonthStatuses == <<"Open", "Closed", "Done">>

\* a table of n tickets: the cells of the date columns are the same in every
\* date column, the other cells go by the place of the ticket
MonthTables(columns, n) ==
    {[i \in 1..n |-> [case_key |-> "CS-" \o ToString(i),
                      case_type |-> MonthCaseTypes[((i - 1) % 3) + 1],
                      priority |-> MonthPriorities[((i - 1) % 3) + 1],
                      status |-> MonthStatuses[((i - 1) % 3) + 1],
                      cells |-> [c \in columns |-> created[i]]]] :
        created \in [1..n -> CreatedCells]}

\* the row loop is over: cases_df has a row for each ticket, with no month yet
InitMonths ==
    /\ OthersIdle("mo")
    /\ mo_columns \in DateColumnSets
    /\ mo_df \in UNION {MonthTables(mo_columns, n) : n \in 1..MaxMonthTickets}
    /\ cases_df = [i \in 1..Len(mo_df) |->
                       [case_key |-> mo_df[i].case_key,
                        case_type |-> mo_df[i].case_type,
                        priority |-> mo_df[i].priority,
                        status |-> mo_df[i].status]]
    /\ mo_months = <<>>
    /\ monthly_counts = <<>>
    /\ monthly_count_df = <<>>
    /\ mo_pc = "start"

NextMonths ==
    \/ AddMonthColumn
    \/ CountMonth
    \/ FrameMonths
    \/ NoDateColumn

SpecMonths == InitMonths /\ [][NextMonths]_vars


-----------------------------------------------------------------------------
(* Tickets without a date in the count by month                            *)

\* the tickets of the table whose date cell is missing or is no date
Undated == {i \in 1..Len(mo_df) : ~IsDate(mo_df[i].cells[created_col(mo_columns)])}

\* the tickets the rows of the sheet count, all months together
CountedInMonths == Sum([k \in 1..Len(monthly_count_df) |-> monthly_count_df[k].total_cases])

\* C18: a ticket whose creation date is missing or cannot be parsed has an
\* empty month and is counted in no row of the count by month: the rows count
\* the tickets with a date and no others.
C18_UndatedInNoMonth ==
    (mo_pc = "done" /\ created_col(mo_columns) # "") =>
        /\ \A i \in Undated : cases_df[i].month = NaN
        /\ CountedInMonths = Len(mo_df) - Cardinality(Undated)

\* the tickets with a date are counted in the row of their month, whatever
\* becomes of the others
DatedCountedInTheirMonth ==
    (mo_pc = "done" /\ created_col(mo_columns) # "") =>
        \A i \in (1..Len(mo_df)) \ Undated :
            \E k \in 1..Len(monthly_count_df) :
                /\ monthly_count_df[k].month = SubSeq(mo_df[i].cells[created_col(mo_columns)], 1, 7)
                /\ monthly_count_df[k].total_cases =
                       Cardinality({j \in 1..Len(mo_df) : cases_df[j].month = cases_df[i].month})


-----------------------------------------------------------------------------
(* Tables without an optional column                                       *)

\* the optional columns the table of the combined report does not have
AbsentOptional == CombinedOptional \ Range(cr_columns)

\* the run of the combined report has stopped without a report
CombinedFailed == cr_pc \in {"exit", "KeyError"}

\* C19: when an optional column is absent from a table with tickets, the run
\* does not fail, and every ticket gets the default of the field.
C19_AbsentOptionalColumnDefaults ==
    (Len(cr_df) > 0 /\ AbsentOptional # {}) =>
        /\ ~CombinedFailed
        /\ cr_pc = "summarized" =>
              \A i \in 1..Len(cases_data) :
                  /\ "Custom field (Customer)" \in AbsentOptional => cases_data[i].company = "N/A"
                  /\ "Custom field (Integration Apps)" \in AbsentOptional =>
                         cases_data[i].integration = "N/A"
                  /\ "Custom field (Case Type)" \in AbsentOptional =>
                         cases_data[i].case_type = "Unknown"
                  /\ "Assignee" \in AbsentOptional => cases_data[i].assignee = "Unassigned"
                  /\ "Resolved" \in AbsentOptional => cases_data[i].resolved = "N/A"

\* the part of C19 that holds: without the customer column or the integration
\* column the run goes on and the tickets get 'N/A'
AbsentCustomerOrIntegrationDefaults ==
    (Len(cr_df) > 0 /\ AbsentOptional # {}
     /\ AbsentOptional \subseteq {"Custom field (Customer)", "Custom field (Integration Apps)"}) =>
        /\ ~CombinedFailed
        /\ \A i \in 1..Len(cases_data) :
              /\ "Custom field (Customer)" \in AbsentOptional => cases_data[i].company = "N/A"
              /\ "Custom field (Integration Apps)" \in AbsentOptional =>
                     cases_data[i].integration = "N/A"

\* a table without the integration column has been summarized
AbsentIntegrationSummarized ==
    /\ cr_pc = "summarized"
    /\ AbsentOptional = {"Custom field (Integration Apps)"}
    /\ Len(cases_data) = MaxCases


-----------------------------------------------------------------------------
(* A ticket that cannot be processed                                       *)

\* C20: a ticket whose processing fails does not stop the run for the others:
\* when the row loop is over, by its end or by the exception of a text
\* operation on a case type that is a number, every ticket whose case type is
\* text or missing has its row in cases_data.
C20_FailureConfinedToTicket ==
    cr_pc \in {"summarized", "AttributeError"} =>
        \A i \in 1..Len(cr_df) :
            ~IsNumber(cr_df[i][CustomFieldCols(cr_columns, "case type")[1]]) =>
                \E k \in 1..Len(cases_data) : cases_data[k].case_key = cr_df[i]["Issue key"]

\* the tickets of a summarized run all have their row
SummarizedRunsHaveEveryTicket ==
    cr_pc = "summarized" =>
        /\ Len(cases_data) = Len(cr_df)
        /\ \A i \in 1..Len(cr_df) : cases_data[i].case_key = cr_df[i]["Issue key"]

-----------------------------------------------------------------------------
(* The runs of the entry points and the files they leave                   *)
(*                                                                         *)
(* analyze_combined_report.py, deep_dive_detailed_analysis.py and          *)
(* generate_master_report.py as sequences of steps, each of which may      *)
(* raise.  A file is known by how far it was written and by the run that   *)
(* wrote it.  The master report runs the two others as subprocesses that   *)
(* write temp_comprehensive.xlsx and temp_deep_dive.xlsx.                  *)

MaxProgramRuns == 2

Programs == {"combined", "deep_dive", "master"}

temp_comprehensive == "temp_comprehensive.xlsx"

temp_deep_dive == "temp_deep_dive.xlsx"

\* the path given with --output
output_file == "output.xlsx"

FileNames == {output_file, temp_comprehensive, temp_deep_dive}

Absent == [state |-> "absent", run |-> 0]

\* the steps of each program in which an exception may be raised after the
\* table was loaded
FaultSteps(program) ==
    CASE program = "combined" -> {"process", "write", "add_sheet"}
      [] program = "deep_dive" -> {"process", "write"}
      [] program = "master" -> {"customers", "write", "format"}

NoFault == [program |-> "none", step |-> "none"]

Faults == {NoFault} \cup {[program |-> p, step |-> s] : p \in Programs, s \in {"process", "write", "add_sheet", "customers", "format"}}

\* the faults a run started at an entry point can meet: its own and, for the
\* master report, those of its two subprocesses
FaultsOf(entry) ==
    {f \in Faults : /\ f # NoFault
                    /\ f.step \in FaultSteps(f.program)
                    /\ (f.program = entry \/ entry = "master")} \cup {NoFault}

Raises(step) == rn_fault = [program |-> rn_proc, step |-> step]

\* the file a program writes: the --output path of the command line
OutputPath ==
    IF rn_proc = rn_entry THEN output_file
    ELSE IF rn_proc = "combined" THEN temp_comprehensive ELSE temp_deep_dive

Written(state) == [rn_files EXCEPT ![OutputPath] = [state |-> state, run |-> rn_run]]

\* the exit status each command line handler gives an exception: the deep
\* dive prints the error and falls off the end of the script
HandlerStatus(program) == IF program = "deep_dive" THEN 0 ELSE 1

\* the program ends with a status: an entry point ends the run, a subprocess
\* returns to the master report
Ends(status) ==
    IF rn_proc = rn_entry
    THEN /\ rn_status' = status
         /\ rn_pc' = "ended"
         /\ UNCHANGED <<rn_proc, rn_returncode>>
    ELSE /\ rn_returncode' = status
         /\ rn_pc' = IF rn_proc = "combined" THEN "check1" ELSE "check2"
         /\ rn_proc' = "master"
         /\ UNCHANGED rn_status

\* pd.read_csv(csv_file) of the two analyses
LoadTable ==
    /\ rn_proc \in {"combined", "deep_dive"}
    /\ rn_pc = "load"
    /\ IF rn_input = "missing"
       THEN Ends(HandlerStatus(rn_proc))
       ELSE /\ rn_pc' = "process"
            /\ UNCHANGED <<rn_proc, rn_returncode, rn_status>>
    /\ UNCHANGED <<rn_entry, rn_input, rn_fault, rn_files, rn_read, rn_run>>
    /\ UNCHANGED not_rn

\* the row loop and the aggregations of the two analyses
ProcessTable ==
    /\ rn_proc \in {"combined", "deep_dive"}
    /\ rn_pc = "process"
    /\ IF Raises("process")
       THEN Ends(HandlerStatus(rn_proc))
       ELSE /\ rn_pc' = "write"
            /\ UNCHANGED <<rn_proc, rn_returncode, rn_status>>
    /\ UNCHANGED <<rn_entry, rn_input, rn_fault, rn_files, rn_read, rn_run>>
    /\ UNCHANGED not_rn

\* the ExcelWriter block of analyze_combined_report: the four sheets are
\* written and formatted; leaving the block saves the workbook, also when
\* the block is left by an exception
WriteSheets ==
    /\ rn_proc = "combined"
    /\ rn_pc = "write"
    /\ IF Raises("write")
       THEN /\ rn_files' = Written("partial")
            /\ Ends(HandlerStatus(rn_proc))
       ELSE /\ rn_files' = Written("sheets")
            /\ rn_pc' = "add_sheet"
            /\ UNCHANGED <<rn_proc, rn_returncode, rn_status>>
    /\ UNCHANGED <<rn_entry, rn_input, rn_fault, rn_read, rn_run>>
    /\ UNCHANGED not_rn

\* the 'Code Fix with Links' pass: the saved workbook is loaded, the sheet is
\* added and the workbook is saved again; skipped without a 'Done' ticket
AddCodeFixSheet ==
    /\ rn_proc = "combined"
    /\ rn_pc = "add_sheet"
    /\ IF rn_input = "with_done" /\ Raises("add_sheet")
       THEN /\ UNCHANGED rn_files
            /\ Ends(HandlerStatus(rn_proc))
       ELSE /\ rn_files' = Written("complete")
            /\ Ends(0)
    /\ UNCHANGED <<rn_entry, rn_input, rn_fault, rn_read, rn_run>>
    /\ UNCHANGED not_rn

\* the ExcelWriter block of deep_dive_analysis
WriteDeepDive ==
    /\ rn_proc = "deep_dive"
    /\ rn_pc = "write"
    /\ IF Raises("write")
       THEN /\ rn_files' = Written("partial")
            /\ Ends(HandlerStatus(rn_proc))
       ELSE /\ rn_files' = Written("complete")
            /\ Ends(0)
    /\ UNCHANGED <<rn_entry, rn_input, rn_fault, rn_read, rn_run>>
    /\ UNCHANGED not_rn

\* step 1 of generate_master_report: subprocess.run of the combined report
Step1 ==
    /\ rn_proc = "master"
    /\ rn_pc = "step1"
    /\ rn_proc' = "combined"
    /\ rn_pc' = "load"
    /\ UNCHANGED <<rn_entry, rn_input, rn_fault, rn_files, rn_read, rn_returncode, rn_status, rn_run>>
    /\ UNCHANGED not_rn

\* if result.returncode != 0: return False
CheckStep1 ==
    /\ rn_proc = "master"
    /\ rn_pc = "check1"
    /\ IF rn_returncode # 0
       THEN Ends(1)
       ELSE /\ rn_pc' = "step2"
            /\ UNCHANGED <<rn_proc, rn_returncode, rn_status>>
    /\ UNCHANGED <<rn_entry, rn_input, rn_fault, rn_files, rn_read, rn_run>>
    /\ UNCHANGED not_rn

\* step 2: subprocess.run of the deep dive
Step2 ==
    /\ rn_proc = "master"
    /\ rn_pc = "step2"
    /\ rn_proc' = "deep_dive"
    /\ rn_pc' = "load"
    /\ UNCHANGED <<rn_entry, rn_input, rn_fault, rn_files, rn_read, rn_returncode, rn_status, rn_run>>
    /\ UNCHANGED not_rn

CheckStep2 ==
    /\ rn_proc = "master"
    /\ rn_pc = "check2"
    /\ IF rn_returncode # 0
       THEN Ends(1)
       ELSE /\ rn_pc' = "customers"
            /\ UNCHANGED <<rn_proc, rn_returncode, rn_status>>
    /\ UNCHANGED <<rn_entry, rn_input, rn_fault, rn_files, rn_read, rn_run>>
    /\ UNCHANGED not_rn

\* step 3: the customer extraction on the table loaded again
ExtractCustomers ==
    /\ rn_proc = "master"
    /\ rn_pc = "customers"
    /\ IF rn_input = "missing" \/ Raises("customers")
       THEN Ends(HandlerStatus(rn_proc))
       ELSE /\ rn_pc' = "read"
            /\ UNCHANGED <<rn_proc, rn_returncode, rn_status>>
    /\ UNCHANGED <<rn_entry, rn_input, rn_fault, rn_files, rn_read, rn_run>>
    /\ UNCHANGED not_rn

\* a workbook that was saved when its writer was left by an exception holds
\* the sheets written until then; it can be read unless it holds none
Readable(file) ==
    CASE file.state = "absent" -> {FALSE}
      [] file.state = "partial" -> BOOLEAN
      [] OTHER -> {TRUE}

\* step 4: pd.ExcelFile(temp_comprehensive) and pd.read_excel(temp_deep_dive)
ReadIntermediate ==
    /\ rn_proc = "master"
    /\ rn_pc = "read"
    /\ \E first \in Readable(rn_files[temp_comprehensive]), second \in Readable(rn_files[temp_deep_dive]) :
          IF first /\ second
          THEN /\ rn_read' = [comprehensive |-> rn_files[temp_comprehensive],
                              deep_dive |-> rn_files[temp_deep_dive]]
               /\ rn_pc' = "write"
               /\ UNCHANGED <<rn_proc, rn_returncode, rn_status>>
          ELSE /\ UNCHANGED rn_read
               /\ Ends(HandlerStatus(rn_proc))
    /\ UNCHANGED <<rn_entry, rn_input, rn_fault, rn_files, rn_run>>
    /\ UNCHANGED not_rn

\* the ExcelWriter block of the master workbook
WriteMaster ==
    /\ rn_proc = "master"
    /\ rn_pc = "write"
    /\ IF Raises("write")
       THEN /\ rn_files' = Written("partial")
            /\ Ends(HandlerStatus(rn_proc))
       ELSE /\ rn_files' = Written("sheets")
            /\ rn_pc' = "format"
            /\ UNCHANGED <<rn_proc, rn_returncode, rn_status>>
    /\ UNCHANGED <<rn_entry, rn_input, rn_fault, rn_read, rn_run>>
    /\ UNCHANGED not_rn

\* the formatting pass: load_workbook(output_file) ... book.save(output_file)
FormatMaster ==
    /\ rn_proc = "master"
    /\ rn_pc = "format"
    /\ IF Raises("format")
       THEN /\ UNCHANGED rn_files
            /\ Ends(HandlerStatus(rn_proc))
       ELSE /\ rn_files' = Written("complete")
            /\ rn_pc' = "cleanup"
            /\ UNCHANGED <<rn_proc, rn_returncode, rn_status>>
    /\ UNCHANGED <<rn_entry, rn_input, rn_fault, rn_read, rn_run>>
    /\ UNCHANGED not_rn

\* os.remove of the two temporary files, then return True
CleanUp ==
    /\ rn_proc = "master"
    /\ rn_pc = "cleanup"
    /\ rn_files' = [rn_files EXCEPT ![temp_comprehensive] = Absent, ![temp_deep_dive] = Absent]
    /\ Ends(0)
    /\ UNCHANGED <<rn_entry, rn_input, rn_fault, rn_read, rn_run>>
    /\ UNCHANGED not_rn

Inputs == {"missing", "no_done", "with_done"}

FirstStep(entry) == IF entry = "master" THEN "step1" ELSE "load"

\* the command line is given again, in the same directory
RunAgain ==
    /\ rn_pc = "ended"
    /\ rn_run < MaxProgramRuns
    /\ rn_run' = rn_run + 1
    /\ rn_pc' = FirstStep(rn_entry)
    /\ rn_input' \in Inputs
    /\ rn_fault' \in FaultsOf(rn_entry)
    /\ rn_read' = [comprehensive |-> Absent, deep_dive |-> Absent]
    /\ rn_returncode' = 0
    /\ rn_status' = -1
    /\ UNCHANGED <<rn_entry, rn_proc, rn_files>>
    /\ UNCHANGED not_rn

InitRuns ==
    /\ rn_entry \in Programs
    /\ rn_proc = rn_entry
    /\ rn_pc = FirstStep(rn_entry)
    /\ rn_input \in Inputs
    /\ rn_fault \in FaultsOf(rn_entry)
    /\ rn_files = [f \in FileNames |-> Absent]
    /\ rn_read = [comprehensive |-> Absent, deep_dive |-> Absent]
    /\ rn_returncode = 0
    /\ rn_status = -1
    /\ rn_run = 1
    /\ OthersIdle("rn")

NextRuns ==
    \/ LoadTable
    \/ ProcessTable
    \/ WriteSheets
    \/ AddCodeFixSheet
    \/ WriteDeepDive
    \/ Step1
    \/ CheckStep1
    \/ Step2
    \/ CheckStep2
    \/ ExtractCustomers
    \/ ReadIntermediate
    \/ WriteMaster
    \/ FormatMaster
    \/ CleanUp
    \/ RunAgain

SpecRuns == InitRuns /\ [][NextRuns]_vars

\* the file at the output path was written, in whole or in part, by this run
OutputOfThisRun == rn_files[output_file].state # "absent" /\ rn_files[output_file].run = rn_run

RunEnded == rn_pc = "ended"

\* C21: in the combined report and the master report, a run in which a step
\* failed ends with no workbook of this run at the output path; a workbook is
\* there only when every step, the add-sheet and formatting passes included,
\* has succeeded.
C21_OutputAllOrNothing ==
    (RunEnded /\ rn_entry \in {"combined", "master"})
        => /\ rn_status # 0 => ~OutputOfThisRun
           /\ OutputOfThisRun => rn_files[output_file].state = "complete"

\* a run that succeeds leaves the whole workbook
SucceededRunsLeaveWholeOutput ==
    (RunEnded /\ rn_status = 0 /\ rn_entry \in {"combined", "master"})
        => (OutputOfThisRun /\ rn_files[output_file].state = "complete")

MasterSucceeded == RunEnded /\ rn_entry = "master" /\ rn_status = 0


\* C22: when the input table cannot be loaded, each entry point ends before
\* it writes any output and with a non-zero exit status.
C22_UnloadableInputAborts ==
    (RunEnded /\ rn_input = "missing") => (rn_status # 0 /\ ~OutputOfThisRun)

\* no entry point writes output for a table it cannot load, and the combined
\* report and the master report end with status 1
UnloadableInputWritesNothing ==
    (RunEnded /\ rn_input = "missing")
        => /\ ~OutputOfThisRun
           /\ rn_entry # "deep_dive" => rn_status = 1

UnloadableInputEnded == RunEnded /\ rn_input = "missing" /\ rn_entry = "master"

\* one of the two subprocesses of this run of the master report raised
SubAnalysisFailed ==
    \/ rn_input = "missing"
    \/ rn_fault.program = "deep_dive"
    \/ rn_fault.program = "combined" /\ (rn_fault.step = "add_sheet" => rn_input = "with_done")

ReadOfThisRun(file) == file.state # "absent" => file.run = rn_run

\* C27: the master report reads only intermediate workbooks written by steps
\* 1 and 2 of the current run, and when one of the two analyses fails the run
\* ends in failure without writing the master workbook.
C27_MasterFromThisRunsIntermediates ==
    rn_entry = "master"
        => /\ ReadOfThisRun(rn_read.comprehensive)
           /\ ReadOfThisRun(rn_read.deep_dive)
           /\ (RunEnded /\ SubAnalysisFailed) => (rn_status # 0 /\ ~OutputOfThisRun)

\* a failure of the combined report stops the master report, and the
\* workbook of the combined report that the master report reads is the one
\* of this run
CombinedFailureStopsMaster ==
    rn_entry = "master"
        => /\ ReadOfThisRun(rn_read.comprehensive)
           /\ (RunEnded /\ (rn_input = "missing" \/ (rn_fault.program = "combined" /\ SubAnalysisFailed)))
                  => (rn_status = 1 /\ ~OutputOfThisRun)

\* the master report read a deep dive workbook left by an earlier run
StaleDeepDiveRead ==
    rn_entry = "master" /\ rn_read.deep_dive.state # "absent" /\ rn_read.deep_dive.run < rn_run

CombinedFailedInMaster ==
    RunEnded /\ rn_entry = "master" /\ rn_fault.program = "combined" /\ rn_input = "with_done"

-----------------------------------------------------------------------------
(* generate_master_report.py and create_dynamic_dashboards.py: the customer *)
(* extraction on the loaded table and the open and closed counts           *)

\* the labels of customer_patterns, in order; they are matched ignoring case
customer_patterns == <<"company:", "customer:", "account:", "user:", "client:",
                       "organization:", "business:", "enterprise:",
                       "customer name:", "account name:", "company name:">>

\* group 1 of re.search(label + r'\s*([^\n]+)', text, re.IGNORECASE): the rest
\* of the line from the first non-blank character after the first occurrence
\* of the label; "" when there is no match or the group holds blanks only
CustomerGroup(text, label) ==
    LET i == Find(Lower(text), label)
        nonspace == {j \in (i + Len(label))..Len(text) : ~IsSpace(CharAt(text, j))}
    IN IF i = 0 \/ nonspace = {} THEN ""
       ELSE LET start == CHOOSE j \in nonspace : \A k \in nonspace : j <= k
                ends == {j \in start..Len(text) : CharAt(text, j) = "\n"}
                last == IF ends = {} THEN Len(text)
                        ELSE (CHOOSE j \in ends : \A k \in ends : j <= k) - 1
            IN SubSeq(text, start, last)

\* where the match of r'\(Tier \d+\)' that starts at i ends, 0 without a match
TierEnd(s, i) ==
    LET digits == {j \in (i + 6)..Len(s) : \A k \in (i + 6)..j : IsDigit(CharAt(s, k))}
        j == IF digits = {} THEN 0 ELSE (CHOOSE a \in digits : \A b \in digits : b <= a) + 1
    IN IF i + 5 <= Len(s) /\ SubSeq(s, i, i + 5) = "(Tier " /\ j # 0 /\ j <= Len(s)
          /\ CharAt(s, j) = ")"
       THEN j ELSE 0

\* re.sub(r'\(Tier \d+\)', '', s)
RECURSIVE RemoveTiers(_)
RemoveTiers(s) ==
    LET at == {i \in 1..Len(s) : TierEnd(s, i) # 0}
    IN IF at = {} THEN s
       ELSE LET i == CHOOSE a \in at : \A b \in at : a <= b
            IN SubSeq(s, 1, i - 1) \o RemoveTiers(SubSeq(s, TierEnd(s, i) + 1, Len(s)))

\* the clean-up of a matched name: strip, cut from '||', drop the tier, strip
CleanCustomer(group) ==
    LET customer == Strip(group)
        bars == Find(customer, "||")
        cut == IF bars = 0 THEN customer ELSE SubSeq(customer, 1, bars - 1)
    IN Strip(RemoveTiers(cut))

NonCustomers == {"none", "unknown", "n/a", "na", "tbd", "to be determined",
                 "internal", "test", "demo", "sample", "example"}

IsCustomer(customer) ==
    /\ Len(customer) > 2
    /\ Lower(customer) \notin NonCustomers
    /\ ~IsPrefix("h1.", customer)
    /\ ~IsPrefix("h2.", customer)
    /\ ~IsPrefix("*", customer)
    /\ ~IsPrefix("#", customer)

extract_customer_from_description(description, summary) ==
    IF description = NaN /\ summary = NaN THEN "Unknown"
    ELSE LET full_text == Str(description) \o " " \o Str(summary)
             found == {p \in 1..Len(customer_patterns) :
                          IsCustomer(CleanCustomer(CustomerGroup(full_text, customer_patterns[p])))}
         IN IF found = {} THEN "Unknown"
            ELSE CleanCustomer(CustomerGroup(full_text,
                     customer_patterns[CHOOSE p \in found : \A q \in found : p <= q]))

\* df[name] = values: the column is added to the table, or overwritten
WithColumn(rows, name, values) ==
    [i \in 1..Len(rows) |->
        [c \in (DOMAIN rows[i]) \cup {name} |-> IF c = name THEN values[i] ELSE rows[i][c]]]

ColumnsWith(columns, name) ==
    IF \E i \in 1..Len(columns) : columns[i] = name THEN columns ELSE Append(columns, name)

OldCustomerCol == "Custom field (Customer (old))"

ResolutionCommentsCol == "Custom field (Resolution Comments)"

\* df['Extracted_Customer'] = df.apply(...), in both programs
ExtractCustomerColumn ==
    /\ cu_pc = "loaded"
    /\ cu_df' = WithColumn(cu_df, "Extracted_Customer",
                    [i \in 1..Len(cu_df) |->
                        extract_customer_from_description(cu_df[i]["Description"], cu_df[i]["Summary"])])
    /\ cu_columns' = ColumnsWith(cu_columns, "Extracted_Customer")
    /\ cu_pc' = "extracted"
    /\ UNCHANGED <<cu_program, cu_loaded, cu_breakdown>>
    /\ UNCHANGED not_cu

\* the master report copies the resolution comments, or adds an empty column
AddResolutionComments ==
    /\ cu_program = "master"
    /\ cu_pc = "extracted"
    /\ cu_df' = WithColumn(cu_df, "Resolution_Comments",
                    [i \in 1..Len(cu_df) |->
                        IF ResolutionCommentsCol \in DOMAIN cu_df[i]
                        THEN cu_df[i][ResolutionCommentsCol] ELSE ""])
    /\ cu_columns' = ColumnsWith(cu_columns, "Resolution_Comments")
    /\ cu_pc' = "commented"
    /\ UNCHANGED <<cu_program, cu_loaded, cu_breakdown>>
    /\ UNCHANGED not_cu

CustomerLimit == 30

MasterOpen == {"Open", "In Progress", "Reopened"}

MasterClosed == {"Closed", "Done", "Resolved"}

DashboardOpen == {"Open", "In Progress", "Reopened", "Waiting for CS/Customer inputs",
                  "Pending Investigation", "On hold", "Under Investigation"}

DashboardClosed == {"Closed", "Done", "Resolved"}

WithStatus(rows, statuses) == Cardinality({i \in 1..Len(rows) : rows[i]["Status"] \in statuses})

Tier(count) == IF count >= 5 THEN "Tier 1" ELSE IF count >= 3 THEN "Tier 2" ELSE "Tier 3"

\* the row of the customer breakdown: name, tier, total, open and closed
CustomerRow(rows, customer) ==
    LET of == SelectSeq(rows, LAMBDA r : r["Extracted_Customer"] = customer)
    IN [customer |-> IF Len(customer) > 25 THEN TakeFirst(customer, 25) \o "..." ELSE customer,
        tier |-> Tier(Len(of)),
        total |-> Len(of),
        open |-> WithStatus(of, MasterOpen),
        closed |-> WithStatus(of, MasterClosed)]

\* value_counts(): the distinct values by falling count; values of equal
\* count in any order
ValueCounts(rows, column) ==
    LET values == {rows[i][column] : i \in 1..Len(rows)}
        n(v) == Cardinality({i \in 1..Len(rows) : rows[i][column] = v})
    IN {order \in Orderings(values) :
           \A a, b \in 1..Len(order) : a < b => n(order[a]) >= n(order[b])}

\* the loop over customer_stats.head(30)
CustomerBreakdown ==
    /\ cu_program = "master"
    /\ cu_pc = "commented"
    /\ \E customer_stats \in ValueCounts(cu_df, "Extracted_Customer") :
          LET listed == SelectSeq(TakeFirst(customer_stats, CustomerLimit),
                                  LAMBDA c : c # "Unknown" /\ c # "- None -" /\ Strip(c) # "")
          IN cu_breakdown' = [k \in 1..Len(listed) |-> CustomerRow(cu_df, listed[k])]
    /\ cu_pc' = "breakdown"
    /\ UNCHANGED <<cu_program, cu_columns, cu_df, cu_loaded>>
    /\ UNCHANGED not_cu

\* df_original['Final_Customer_Name'] = ...: the old customer field unless it
\* is '- None -'; row[...] raises KeyError when the table has no such column
AddFinalCustomerName ==
    /\ cu_program = "master"
    /\ cu_pc = "breakdown"
    /\ IF \E i \in 1..Len(cu_columns) : cu_columns[i] = OldCustomerCol
       THEN /\ cu_df' = WithColumn(cu_df, "Final_Customer_Name",
                            [i \in 1..Len(cu_df) |->
                                IF cu_df[i][OldCustomerCol] = "- None -"
                                THEN cu_df[i]["Extracted_Customer"]
                                ELSE cu_df[i][OldCustomerCol]])
            /\ cu_columns' = ColumnsWith(cu_columns, "Final_Customer_Name")
            /\ cu_pc' = "done"
       ELSE /\ cu_pc' = "KeyError"
            /\ UNCHANGED <<cu_df, cu_columns>>
    /\ UNCHANGED <<cu_program, cu_loaded, cu_breakdown>>
    /\ UNCHANGED not_cu

\* total_cases, closed_cases and open_cases of the dynamic dashboard
DashboardMetrics ==
    /\ cu_program = "dashboard"
    /\ cu_pc = "extracted"
    /\ cu_breakdown' = <<[customer |-> "", tier |-> "",
                          total |-> Len(cu_df),
                          open |-> WithStatus(cu_df, DashboardOpen),
                          closed |-> WithStatus(cu_df, DashboardClosed)]>>
    /\ cu_pc' = "done"
    /\ UNCHANGED <<cu_program, cu_columns, cu_df, cu_loaded>>
    /\ UNCHANGED not_cu

MaxCustomerTickets == 2

\* the description and summary cells of a ticket
CustomerTexts ==
    {<<NaN, NaN>>,
     <<"Company: Acme", "Order sync failed">>,
     <<"Company: test\nCustomer: Beta Corp || EU (Tier 1)", NaN>>,
     <<NaN, "customer:\n  Acme (Tier 2) Ltd">>}

CustomerStatuses == {"Open", "Closed", "On hold", "Cancelled"}

OldCustomerCells == {"- None -", "Gamma"}

CustomerLayouts ==
    {<<"Issue key", "Summary", "Description", "Status">> \o a \o b :
        a \in {<<>>, <<OldCustomerCol>>}, b \in {<<>>, <<ResolutionCommentsCol>>}}

CustomerRows(columns) ==
    {[c \in Range(columns) |->
        CASE c = "Issue key" -> "CS-0"
          [] c = "Summary" -> t[2]
          [] c = "Description" -> t[1]
          [] c = "Status" -> s
          [] c = OldCustomerCol -> o
          [] c = ResolutionCommentsCol -> "Fixed in release"] :
        t \in CustomerTexts, s \in CustomerStatuses, o \in OldCustomerCells}

CustomerTables(columns) ==
    UNION {[1..n -> CustomerRows(columns)] : n \in 1..MaxCustomerTickets}

InitCustomers ==
    /\ cu_program \in {"master", "dashboard"}
    /\ cu_columns \in CustomerLayouts
    /\ cu_df \in {[i \in 1..Len(t) |-> [t[i] EXCEPT !["Issue key"] = "CS-" \o CharAt(Digits, i + 1)]] :
                     t \in CustomerTables(cu_columns)}
    /\ cu_loaded = [columns |-> cu_columns, rows |-> cu_df]
    /\ cu_breakdown = <<>>
    /\ cu_pc = "loaded"
    /\ OthersIdle("cu")

NextCustomers ==
    \/ ExtractCustomerColumn
    \/ AddResolutionComments
    \/ CustomerBreakdown
    \/ AddFinalCustomerName
    \/ DashboardMetrics

SpecCustomers == InitCustomers /\ [][NextCustomers]_vars

\* C23: the loaded ticket table is left as it was loaded by every later
\* stage: no column is added or removed and no value is changed.
C23_LoadedTableUnchanged ==
    cu_pc # "idle" => (cu_columns = cu_loaded.columns /\ cu_df = cu_loaded.rows)

\* the stages add columns and leave the loaded columns and their values alone
LoadedColumnsKept ==
    cu_pc # "idle"
        => /\ SubSeq(cu_columns, 1, Len(cu_loaded.columns)) = cu_loaded.columns
           /\ \A i \in 1..Len(cu_df) : \A c \in DOMAIN cu_loaded.rows[i] :
                  cu_df[i][c] = cu_loaded.rows[i][c]

ColumnsAdded == cu_pc = "done" /\ cu_program = "master" /\ Len(cu_columns) = Len(cu_loaded.columns) + 3

\* C26: in the customer breakdown of the master report and in the dynamic
\* dashboard every ticket is counted once, as open or as closed: the open and
\* closed counts add up to the total, whatever the status values are.
C26_OpenPlusClosedIsTotal ==
    \A k \in 1..Len(cu_breakdown) :
        cu_breakdown[k].open + cu_breakdown[k].closed = cu_breakdown[k].total

\* no ticket is counted twice, and the counts add up when every status is
\* one of the labels the program lists
OpenAndClosedApart ==
    \A k \in 1..Len(cu_breakdown) :
        /\ cu_breakdown[k].open + cu_breakdown[k].closed <= cu_breakdown[k].total
        /\ (\A i \in 1..Len(cu_df) : cu_df[i]["Status"] \in {"Open", "Closed"})
               => cu_breakdown[k].open + cu_breakdown[k].closed = cu_breakdown[k].total

BreakdownBuilt == cu_program = "master" /\ Len(cu_breakdown) = 2


\* a customer row of the master report in which a ticket is neither open nor
\* closed
MasterRowUncounted ==
    cu_program = "master" /\ \E k \in 1..Len(cu_breakdown) :
        cu_breakdown[k].open + cu_breakdown[k].closed < cu_breakdown[k].total

-----------------------------------------------------------------------------
(* normalize_flow_name: what is removed from a name                        *)

Articles == {"the", "a", "an"}

GenericSuffixes == {"flow", "sync", "import", "export"}

\* the name only lowercased, passed through the replacement table and with
\* its whitespace collapsed
OnlyReplaced(name) == JoinSplit(ReplaceEach(Strip(Lower(name)), replacements))

\* the name neither starts with an article nor ends with a generic suffix
NoLeadingArticleNoTrailingSuffix(name) ==
    LET words == Split(Lower(name))
    IN /\ Len(words) > 0
       /\ words[1] \notin Articles
       /\ words[Len(words)] \notin GenericSuffixes

\* C24: normalize_flow_name removes an article only as the leading word and
\* a generic suffix only as the trailing word: a name that neither starts
\* with an article nor ends with a suffix is changed only by lowercasing, the
\* replacement table and whitespace collapsing.
C24_OnlyLeadingArticleTrailingSuffix ==
    (norm_pc \in {"normalized", "done"} /\ NoLeadingArticleNoTrailingSuffix(flow_name))
        => normalized = OnlyReplaced(flow_name)

\* a name without any article or suffix word loses nothing
NoArticleNoSuffixKept ==
    (norm_pc \in {"normalized", "done"}
     /\ \A w \in Range(Split(Lower(flow_name))) : w \notin Articles \cup GenericSuffixes)
        => normalized = OnlyReplaced(flow_name)

ArticleFreeNameNormalized ==
    /\ norm_pc = "normalized"
    /\ flow_name = "Order  to netsuite"
    /\ normalized = "order → netsuite"

-----------------------------------------------------------------------------
(* analyze_code_fixes_with_links: confidence and the linked items          *)

-----------------------------------------------------------------------------
(* analyze_case_resolution: the resolution method returned                 *)

\* the labels determine_resolution_method returns
ResolutionMethodLabels ==
    {"No Resolution Comments", "Code Fix", "Workaround Applied", "Customer Guidance",
     "Configuration Change", "Escalated to Engineering", "Data Fix", "External Resolution",
     "No Action Required", "Other/Unknown"}

\* C28: the resolution method analyze_case_resolution returns for a case is
\* one of the labels of the resolution-method table.
C28_MethodIsTableLabel ==
    (cls_program = "holiday" /\ cls_pc = "done") => resolution_method \in ResolutionMethodLabels

\* what determine_resolution_method itself gives is a label of the table, and
\* it is what is returned when no fix is extracted from the comments
DeterminedMethodIsTableLabel ==
    (cls_program = "holiday" /\ cls_pc = "done")
        => /\ determined_method \in ResolutionMethodLabels
           /\ extract_fix_from_comments(cls_ticket.resolution_comments).fix = ""
                  => resolution_method = determined_method

MethodFromLadder ==
    /\ cls_program = "holiday" /\ cls_pc = "done"
    /\ cls_ticket.resolution_comments = "escalated to dev team"
    /\ resolution_method = "Escalated to Engineering"

\* analyze_case_resolution raised on a comment with an issue and no fix
ResolutionRaised == cls_program = "holiday" /\ cls_pc = "UnboundLocalError"

-----------------------------------------------------------------------------
(* merge_similar_flows: the issue count of a merged row                    *)

\* C29: the 'Issue Count' of every merged flow row is the number of distinct
\* tickets that mention at least one variant of the group; a ticket that
\* mentions two variants of one group is counted once.
C29_IssueCountIsDistinctTickets ==
    Merged =>
        \A n \in 1..Len(frequent_flows) :
            frequent_flows[n].issue_count
                = Cardinality(VariantKeys(Variants(frequent_flows[n])))

\* the issue count is the sum of the variants' ticket counts; it is the
\* number of distinct tickets when no ticket mentions two variants
IssueCountIsSumOverVariants ==
    Merged =>
        \A n \in 1..Len(frequent_flows) :
            LET vs == Variants(frequent_flows[n])
                listed == [i \in vs |-> Len(integration_flows[i].case_keys)]
                sum == Sum([k \in 1..Cardinality(vs) |->
                               listed[CHOOSE i \in vs : Cardinality({j \in vs : j < i}) = k - 1]])
            IN /\ frequent_flows[n].issue_count = sum
               /\ (\A i, j \in vs : i # j => Range(integration_flows[i].case_keys)
                                                \cap Range(integration_flows[j].case_keys) = {})
                      => frequent_flows[n].issue_count = Cardinality(VariantKeys(vs))

\* a merged row of two variants
TwoVariantsMerged ==
    Merged /\ \E n \in 1..Len(frequent_flows) : frequent_flows[n].merged_count = 2

-----------------------------------------------------------------------------
(* jira_mcp_excel_analyzer.py: classify_holiday_period                     *)

\* self.holiday_periods, in insertion order
holiday_periods == <<
    [name |-> "Black Friday Week", start |-> "Nov 20", end |-> "Nov 27"],
    [name |-> "Cyber Monday", start |-> "Nov 27", end |-> "Dec 1"],
    [name |-> "Holiday Shopping", start |-> "Dec 1", end |-> "Dec 24"],
    [name |-> "Christmas Week", start |-> "Dec 24", end |-> "Jan 1"],
    [name |-> "New Year Recovery", start |-> "Jan 1", end |-> "Jan 15"] >>

\* a time of day written HH:MM:SS
IsTime(text) ==
    /\ Len(text) = 8
    /\ \A i \in {1, 2, 4, 5, 7, 8} : IsDigit(CharAt(text, i))
    /\ CharAt(text, 3) = ":" /\ CharAt(text, 6) = ":"
    /\ ToNumber(SubSeq(text, 1, 2)) < 24
    /\ ToNumber(SubSeq(text, 4, 5)) < 60
    /\ ToNumber(SubSeq(text, 7, 8)) < 60

\* datetime.strptime(date_str, '%Y-%m-%d %H:%M:%S'), for texts with two-digit
\* fields: TRUE when it returns
Strptime(date_str) ==
    /\ Len(date_str) = 19
    /\ IsDate(SubSeq(date_str, 1, 10))
    /\ CharAt(date_str, 11) = " "
    /\ IsTime(SubSeq(date_str, 12, 19))

\* datetime.fromisoformat of a date, 'T', a time and an optional offset +HH:MM
FromIsoFormat(text) ==
    /\ Len(text) \in {19, 25}
    /\ IsDate(SubSeq(text, 1, 10))
    /\ CharAt(text, 11) = "T"
    /\ IsTime(SubSeq(text, 12, 19))
    /\ Len(text) = 25 => /\ CharAt(text, 20) \in {"+", "-"}
                         /\ IsTime(SubSeq(text, 21, 25) \o ":00")

\* the date the try block parses, or that it raises
Parseable(date_str) ==
    IF Contains(date_str, "T") THEN FromIsoFormat(Replace(date_str, "Z", "+00:00"))
    ELSE Strptime(date_str)

classify_holiday_period(date_str) ==
    IF date_str = NaN \/ date_str = "" THEN "Unknown"
    ELSE IF ~Parseable(date_str) THEN "Unknown"
    ELSE LET month == ToNumber(SubSeq(date_str, 6, 7))
             day == ToNumber(SubSeq(date_str, 9, 10))
         IN IF month = 11
            THEN IF day >= 20 THEN "Black Friday Week"
                 ELSE IF day >= 27 THEN "Cyber Monday"
                 ELSE "Off-Season"
            ELSE IF month = 12
            THEN IF day <= 1 THEN "Cyber Monday"
                 ELSE IF day <= 24 THEN "Holiday Shopping"
                 ELSE "Christmas Week"
            ELSE IF month = 1
            THEN IF day <= 15 THEN "New Year Recovery" ELSE "Off-Season"
            ELSE "Off-Season"

ClassifyHolidayPeriod ==
    /\ hp_pc = "start"
    /\ hp_period' = classify_holiday_period(hp_date)
    /\ hp_pc' = "done"
    /\ UNCHANGED hp_date
    /\ UNCHANGED not_hp

\* the year of the dates explored: a leap year
HolidayYear == 2024

Pad2(n) == CharAt(Digits, (n \div 10) + 1) \o CharAt(Digits, (n % 10) + 1)

\* every day of the year, written as the two parsers take it
HolidayDates ==
    {ToString(HolidayYear) \o "-" \o Pad2(m) \o "-" \o Pad2(d) \o t :
        m \in 1..12, d \in 1..31, t \in {" 10:30:00", "T10:30:00Z"}}

UnparsedDates == {NaN, "", "2024-11-28", "28/11/2024 10:30:00", "Tomorrow"}

InitHoliday ==
    /\ hp_date \in HolidayDates \cup UnparsedDates
    /\ hp_period = NaN
    /\ hp_pc = "start"
    /\ OthersIdle("hp")

NextHoliday == ClassifyHolidayPeriod

SpecHoliday == InitHoliday /\ [][NextHoliday]_vars

MonthNames == <<"Jan", "Feb", "Mar", "Apr", "May", "Jun", "Jul", "Aug", "Sep", "Oct", "Nov", "Dec">>

\* the month and day a bound of the table writes, as month * 100 + day
MonthDay(text) ==
    (CHOOSE m \in 1..12 : MonthNames[m] = SubSeq(text, 1, 3)) * 100
        + ToNumber(SubSeq(text, 5, Len(text)))

\* the range of the period holds the month and day; a range that ends before
\* it starts goes over the turn of the year
Contained(md, period) ==
    LET start == MonthDay(period.start)
        end == MonthDay(period.end)
    IN IF start <= end THEN start <= md /\ md <= end
       ELSE md >= start \/ md <= end

PeriodsOf(md) ==
    {holiday_periods[p].name : p \in {q \in 1..Len(holiday_periods) : Contained(md, holiday_periods[q])}}

DateOf(date_str) == ToNumber(SubSeq(date_str, 6, 7)) * 100 + ToNumber(SubSeq(date_str, 9, 10))

Classified == hp_pc = "done" /\ hp_date # NaN /\ hp_date # "" /\ Parseable(hp_date)

\* C30: every parseable date is given a period of the table whose range holds
\* its month and day, and 'Off-Season' when no range holds it.
C30_PeriodContainsDate ==
    Classified =>
        IF PeriodsOf(DateOf(hp_date)) = {} THEN hp_period = "Off-Season"
        ELSE hp_period \in PeriodsOf(DateOf(hp_date))

\* the same for every date but November 28 to 30, and the dates that do not
\* parse are 'Unknown'
PeriodContainsDateButLateNovember ==
    /\ (Classified /\ DateOf(hp_date) \notin 1128..1130)
           => IF PeriodsOf(DateOf(hp_date)) = {} THEN hp_period = "Off-Season"
              ELSE hp_period \in PeriodsOf(DateOf(hp_date))
    /\ (hp_pc = "done" /\ ~Classified) => hp_period = "Unknown"

CyberMondayReturned == hp_pc = "done" /\ hp_period = "Cyber Monday"

ChristmasWeekReturned == hp_pc = "done" /\ hp_period = "Christmas Week" /\ DateOf(hp_date) = 1231

=============================================================================
